---------------------------- MODULE Spec2Model ----------------------------
(***************************************************************************)
(* A model of the combustion chess engine: the board rules                 *)
(* (board_moves.rs, board_threatens.rs), the searcher                      *)
(* (board_alpha_beta.rs), the transposition table                          *)
(* (transposition_table.rs) and the worker pool (threadpool.rs) together   *)
(* with the front-end loop that drives it (main.rs, bin/benchmark.rs).     *)
(***************************************************************************)
EXTENDS Integers, Sequences, FiniteSets, TLC

(***************************************************************************)
(* Bounds of the model.                                                    *)
(***************************************************************************)
NWorkers == 2        \* worker threads of the pool
MaxSearches == 1     \* find_best_move calls in one behaviour
MaxDepth == 1        \* largest search depth handed to find_best_move
MaxPly == 2          \* make_move calls in one behaviour of the board walk
MaxReads == 1        \* reads of the abort flag a search made before abort was set
MaxSearchDepth == 2  \* largest depth searched on the board walk
MaxJobs == 7         \* most root jobs of a search run on the board walk
XboardReach == 1     \* ranks and files between the two squares of a user move
MaxAgain == 2        \* find_best_move calls in one behaviour of the pool that is used again
MaxAbortDepth == 3   \* largest depth of a search that is aborted on the job walk
MaxAbortReads == 2

\* depth of the searches of the positions with two checkmates: at 3 a job
\* sees a checkmate two plies after its root move
MaxMateDepth == 3   \* reads of the abort flag a job made before abort was set

(***************************************************************************)
(* Program constants.                                                      *)
(***************************************************************************)
TableLevels == 20            \* TranspositionTable::new(20)
ISizeMax == 2147483647       \* isize::max_value() of a 32-bit target
ISizeMin == -ISizeMax - 1    \* isize::min_value()

(***************************************************************************)
(* piece.rs                                                                *)
(***************************************************************************)
White == "White"
Black == "Black"
Colors == {White, Black}

other(c) == IF c = White THEN Black ELSE White

PieceTypes == {"Pawn", "Bishop", "Knight", "Rook", "Queen", "King"}

NoPiece == [kind |-> "None", color |-> "None"]

Piece(k, c) == [kind |-> k, color |-> c]

\* PieceType::order, used for sorting moves
order(k) ==
    CASE k = "Knight" -> 0
      [] k = "Bishop" -> 1
      [] k = "Rook"   -> 2
      [] k = "Queen"  -> 3
      [] k = "Pawn"   -> 4
      [] k = "King"   -> 5

(***************************************************************************)
(* position.rs: squares are 0..63, 0 = a8, 7 = h8, 56 = a1, 63 = h1.       *)
(***************************************************************************)
Squares == 0..63
NoPos == -1

file(p) == p % 8
rank(p) == (p - file(p)) \div 8
PosNew(r, f) == r * 8 + f

file_is(p, f) == file(p) = f
rank_is(p, c) == rank(p) = 8 - c

\* north is negative, west is negative
mv(p, vertical, horizontal) ==
    LET r == rank(p) + vertical
        f == file(p) + horizontal
    IN  IF r >= 0 /\ r < 8 /\ f >= 0 /\ f < 8 THEN PosNew(r, f) ELSE NoPos

north(p, d) == mv(p, -d, 0)
south(p, d) == mv(p, d, 0)
east(p, d) == mv(p, 0, d)
west(p, d) == mv(p, 0, -d)
northeast(p, d) == mv(p, -d, d)
northwest(p, d) == mv(p, -d, -d)
southeast(p, d) == mv(p, d, d)
southwest(p, d) == mv(p, d, -d)

\* Pos::value, the centerness of a square
value(p) ==
    IF rank_is(p, 1) \/ file_is(p, 0) \/ rank_is(p, 8) \/ file_is(p, 7) THEN 0
    ELSE IF rank_is(p, 2) \/ file_is(p, 1) \/ rank_is(p, 7) \/ file_is(p, 6) THEN 1
    ELSE IF rank_is(p, 3) \/ file_is(p, 2) \/ rank_is(p, 6) \/ file_is(p, 5) THEN 2
    ELSE 3

\* util::from_algebra on a file letter (0 = a .. 7 = h) and a rank digit 1..8
from_algebra(col, digit) == (7 - (digit - 1)) * 8 + col

\* named squares (pos!("e1") and friends)
a8 == from_algebra(0, 8)
b8 == from_algebra(1, 8)
c8 == from_algebra(2, 8)
d8 == from_algebra(3, 8)
e8 == from_algebra(4, 8)
f8 == from_algebra(5, 8)
g8 == from_algebra(6, 8)
h8 == from_algebra(7, 8)
a1 == from_algebra(0, 1)
b1 == from_algebra(1, 1)
c1 == from_algebra(2, 1)
d1 == from_algebra(3, 1)
e1 == from_algebra(4, 1)
f1 == from_algebra(5, 1)
g1 == from_algebra(6, 1)
h1 == from_algebra(7, 1)

(***************************************************************************)
(* board.rs: the Board value and its accessors.                            *)
(***************************************************************************)
EmptyBoard == [i \in Squares |-> NoPiece]

BoardNew ==
    [board |-> EmptyBoard,
     color_to_move |-> White,
     castle_rights |-> [i \in 0..3 |-> FALSE],
     en_passant_target |-> NoPos,
     halfmove_clock |-> 0,
     move_number |-> 1]

piece(b, loc) == b.board[loc]

occupied(b, pos) == piece(b, pos) # NoPiece

is_en_passant_target(b, p) ==
    b.en_passant_target # NoPos /\ b.en_passant_target = p

castle_kingside_rights(b, c) ==
    IF c = White THEN b.castle_rights[0] ELSE b.castle_rights[2]

castle_queenside_rights(b, c) ==
    IF c = White THEN b.castle_rights[1] ELSE b.castle_rights[3]

\* the squares of the board in index order, as Board::pieces walks them
SquareSeq == [i \in 1..64 |-> i - 1]

\* Board::pieces restricted to one colour: the squares, in index order
get_pieces_by_color(b, c) ==
    SelectSeq(SquareSeq, LAMBDA s : b.board[s].color = c)

get_pieces_by_type_and_color(b, k, c) ==
    SelectSeq(SquareSeq, LAMBDA s : b.board[s] = Piece(k, c))

(***************************************************************************)
(* board_threatens.rs: color_threatens.                                    *)
(***************************************************************************)
KingHops ==
    << <<1, 1>>, <<1, 0>>, <<1, -1>>, <<0, 1>>, <<0, -1>>,
       <<-1, 1>>, <<-1, 0>>, <<-1, -1>> >>

KnightHops ==
    << <<1, 2>>, <<1, -2>>, <<-1, -2>>, <<-1, 2>>,
       <<2, 1>>, <<2, -1>>, <<-2, -1>>, <<-2, 1>> >>

\* north, south, east, west as (vertical, horizontal) steps
RookDirs == << <<-1, 0>>, <<1, 0>>, <<0, 1>>, <<0, -1>> >>

\* northeast, northwest, southeast, southwest
BishopDirs == << <<-1, 1>>, <<-1, -1>>, <<1, 1>>, <<1, -1>> >>

QueenDirs == RookDirs \o BishopDirs

\* a ray that goes on through the pieces in its way
RECURSIVE RayThrough(_, _, _, _)
RayThrough(b, ray, d, old) ==
    LET nxt == mv(ray, d[1], d[2])
    IN  IF nxt = NoPos THEN FALSE
        ELSE IF nxt = old THEN TRUE
        ELSE RayThrough(b, nxt, d, old)

\* one ray of a sliding piece: walk until old is met or a piece blocks
RECURSIVE RayThreatens(_, _, _, _)
RayThreatens(b, ray, d, old) ==
    LET nxt == mv(ray, d[1], d[2])
    IN  IF nxt = NoPos THEN FALSE
        ELSE IF nxt = old THEN TRUE
        ELSE IF piece(b, nxt) # NoPiece THEN FALSE
        ELSE RayThreatens(b, nxt, d, old)

\* a pawn on new: its two forward diagonals, and the square behind the
\* en-passant target when a diagonal is that target
PawnThreatens(b, c, new, old) ==
    LET diag(ray) ==
            ray # NoPos
            /\ (ray = old
                \/ (is_en_passant_target(b, ray)
                    /\ (IF c = White THEN south(ray, 1) ELSE north(ray, 1)) = old))
    IN  IF c = White
        THEN diag(northeast(new, 1)) \/ diag(northwest(new, 1))
        ELSE diag(southeast(new, 1)) \/ diag(southwest(new, 1))

PieceThreatens(b, c, new, old) ==
    LET k == piece(b, new).kind
    IN  CASE k = "Pawn" -> PawnThreatens(b, c, new, old)
          [] k = "King" ->
                \E i \in 1..8 : mv(new, KingHops[i][1], KingHops[i][2]) = old
          [] k = "Knight" ->
                \E i \in 1..8 : mv(new, KnightHops[i][1], KnightHops[i][2]) = old
          [] k = "Rook" ->
                \E i \in 1..4 : RayThreatens(b, new, RookDirs[i], old)
          [] k = "Bishop" ->
                \E i \in 1..4 : RayThreatens(b, new, BishopDirs[i], old)
          [] k = "Queen" ->
                \E i \in 1..8 : RayThreatens(b, new, QueenDirs[i], old)

color_threatens(b, c, old) ==
    \E new \in Squares :
        piece(b, new).color = c /\ PieceThreatens(b, c, new, old)

(***************************************************************************)
(* moves.rs: the Move record.                                              *)
(***************************************************************************)
Move(k, from, to, takes, ep, prom, castle) ==
    [kind |-> k, from |-> from, to |-> to, takes |-> takes,
     en_passant |-> ep, promotion |-> prom, castle |-> castle]

\* the order promotions are pushed in
Promotions == <<"Queen", "Knight", "Rook", "Bishop">>

(***************************************************************************)
(* board_moves.rs: the pseudo-legal generators.                            *)
(***************************************************************************)
\* a pawn on old moving in direction dv (-1 north, 1 south); last is the
\* promotion rank and start the rank of the double push
PawnMoves(b, old, dv, last, start) ==
    LET m(to, takes, ep, prom) == Move("Pawn", old, to, takes, ep, prom, "None")
        fan(to, takes) ==
            IF rank_is(to, last)
            THEN [i \in 1..4 |-> m(to, takes, FALSE, Promotions[i])]
            ELSE << m(to, takes, FALSE, "None") >>
        new == mv(old, dv, 0)
        double == mv(new, dv, 0)
        push ==
            IF new # NoPos /\ ~occupied(b, new)
            THEN fan(new, FALSE)
                 \o (IF rank_is(old, start) /\ double # NoPos /\ ~occupied(b, double)
                     THEN << m(double, FALSE, FALSE, "None") >>
                     ELSE <<>>)
            ELSE <<>>
        capture(to) ==
            IF to = NoPos THEN <<>>
            ELSE IF occupied(b, to) THEN fan(to, TRUE)
            ELSE IF is_en_passant_target(b, to)
                 THEN << m(to, TRUE, TRUE, "None") >>
                 ELSE <<>>
    IN  push \o capture(mv(old, dv, 1)) \o capture(mv(old, dv, -1))

white_pawn_moves(b, old) == PawnMoves(b, old, -1, 8, 2)

black_pawn_moves(b, old) == PawnMoves(b, old, 1, 1, 7)

pawn_moves(b, loc, c) ==
    IF c = White THEN white_pawn_moves(b, loc) ELSE black_pawn_moves(b, loc)

\* one ray of a sliding piece of kind k and colour c standing on old
RECURSIVE RayMoves(_, _, _, _, _, _)
RayMoves(b, k, old, new, d, c) ==
    LET nxt == mv(new, d[1], d[2])
    IN  IF nxt = NoPos THEN <<>>
        ELSE IF piece(b, nxt) = NoPiece
             THEN << Move(k, old, nxt, FALSE, FALSE, "None", "None") >>
                  \o RayMoves(b, k, old, nxt, d, c)
        ELSE IF piece(b, nxt).color # c
             THEN << Move(k, old, nxt, TRUE, FALSE, "None", "None") >>
        ELSE <<>>

RECURSIVE SlideMoves(_, _, _, _, _, _)
SlideMoves(b, k, old, dirs, i, c) ==
    IF i > Len(dirs) THEN <<>>
    ELSE RayMoves(b, k, old, old, dirs[i], c) \o SlideMoves(b, k, old, dirs, i + 1, c)

queen_moves(b, old, c) == SlideMoves(b, "Queen", old, QueenDirs, 1, c)

rook_moves(b, old, c) == SlideMoves(b, "Rook", old, RookDirs, 1, c)

bishop_moves(b, old, c) == SlideMoves(b, "Bishop", old, BishopDirs, 1, c)

\* a one-hop piece: every hop that stays on the board and does not land on
\* a piece of its own colour
RECURSIVE HopMoves(_, _, _, _, _, _)
HopMoves(b, k, old, hops, i, c) ==
    IF i > Len(hops) THEN <<>>
    ELSE LET new == mv(old, hops[i][1], hops[i][2])
             here ==
                 IF new = NoPos THEN <<>>
                 ELSE IF piece(b, new) = NoPiece
                      THEN << Move(k, old, new, FALSE, FALSE, "None", "None") >>
                 ELSE IF piece(b, new).color # c
                      THEN << Move(k, old, new, TRUE, FALSE, "None", "None") >>
                 ELSE <<>>
         IN  here \o HopMoves(b, k, old, hops, i + 1, c)

knight_moves(b, old, c) == HopMoves(b, "Knight", old, KnightHops, 1, c)

\* the order king_moves tries the king's hops in
KingMoveHops ==
    << <<1, 0>>, <<1, 1>>, <<1, -1>>, <<-1, 0>>, <<-1, 1>>, <<-1, -1>>,
       <<0, 1>>, <<0, -1>> >>

\* a generator that offers the castle as a king move without the castle set
PlainKingMove(side) == Move("King", 0, 0, FALSE, FALSE, "None", "None")

CastleMove(side) == Move("King", 0, 0, FALSE, FALSE, "None", side)

\* the conditions under which king_moves offers a castle
KingsideOffered(b, old, c) ==
    /\ castle_kingside_rights(b, c)
    /\ ~occupied(b, east(old, 1))
    /\ ~occupied(b, east(old, 2))
    /\ ~color_threatens(b, other(c), old)
    /\ ~color_threatens(b, other(c), east(old, 1))

QueensideOffered(b, old, c) ==
    /\ castle_queenside_rights(b, c)
    /\ ~occupied(b, west(old, 1))
    /\ ~occupied(b, west(old, 2))
    /\ ~occupied(b, west(old, 3))
    /\ ~color_threatens(b, other(c), old)
    /\ ~color_threatens(b, other(c), west(old, 1))

\* king_moves panics (expect on None) when a castling right is held and the
\* squares beside the king run off the board
king_moves_panics(b, old, c) ==
    \/ /\ castle_kingside_rights(b, c)
       /\ \/ east(old, 1) = NoPos
          \/ ~occupied(b, east(old, 1)) /\ east(old, 2) = NoPos
    \/ /\ castle_queenside_rights(b, c)
       /\ \/ west(old, 1) = NoPos
          \/ ~occupied(b, west(old, 1)) /\ west(old, 2) = NoPos
          \/ ~occupied(b, west(old, 1)) /\ ~occupied(b, west(old, 2))
             /\ west(old, 3) = NoPos

king_moves(b, old, c) ==
    HopMoves(b, "King", old, KingMoveHops, 1, c)
    \o (IF KingsideOffered(b, old, c) THEN << CastleMove("Kingside") >> ELSE <<>>)
    \o (IF QueensideOffered(b, old, c) THEN << CastleMove("Queenside") >> ELSE <<>>)

PieceMoves(b, loc, c) ==
    LET k == piece(b, loc).kind
    IN  CASE k = "Pawn"   -> pawn_moves(b, loc, c)
          [] k = "Queen"  -> queen_moves(b, loc, c)
          [] k = "Rook"   -> rook_moves(b, loc, c)
          [] k = "Bishop" -> bishop_moves(b, loc, c)
          [] k = "Knight" -> knight_moves(b, loc, c)
          [] k = "King"   -> king_moves(b, loc, c)

RECURSIVE MovesOf(_, _, _, _)
MovesOf(b, locs, i, c) ==
    IF i > Len(locs) THEN <<>>
    ELSE PieceMoves(b, locs[i], c) \o MovesOf(b, locs, i + 1, c)

\* Board::moves: the pseudo-legal moves of the side to move
moves(b) ==
    MovesOf(b, get_pieces_by_color(b, b.color_to_move), 1, b.color_to_move)

\* Board::moves panics when king_moves does
moves_panics(b) ==
    \E loc \in Squares :
        /\ piece(b, loc) = Piece("King", b.color_to_move)
        /\ king_moves_panics(b, loc, b.color_to_move)

(***************************************************************************)
(* board_moves.rs: make_move.  The result is Ok(board) or an error; a      *)
(* panic (unwrap or expect on None) is reported as the error "Panic".      *)
(***************************************************************************)
Ok(b) == [ok |-> TRUE, err |-> "None", board |-> b]
Err(e) == [ok |-> FALSE, err |-> e, board |-> BoardNew]

\* the rights of colour c, both dropped
DropRights(cr, c) ==
    IF c = White
    THEN [cr EXCEPT ![0] = FALSE, ![1] = FALSE]
    ELSE [cr EXCEPT ![2] = FALSE, ![3] = FALSE]

\* a castle branch that does not ask whether the king's path is threatened
CastleThroughCheck(self, b, color, held, king, rook, over, between, kto, rto) ==
    IF ~held THEN Err("IllegalMove")
    ELSE IF \E i \in 1..Len(between) : occupied(self, between[i])
         THEN Err("IllegalMove")
    ELSE IF piece(b, king) # Piece("King", color) THEN Err("IllegalMove")
    ELSE IF piece(b, rook) # Piece("Rook", color) THEN Err("IllegalMove")
    ELSE Ok([b EXCEPT
                !.board = [@ EXCEPT ![king] = NoPiece, ![rook] = NoPiece,
                                    ![kto] = Piece("King", color),
                                    ![rto] = Piece("Rook", color)],
                !.castle_rights = DropRights(@, color)])

\* the castle branch; b is the new board under construction, self the old
\* one.  king, rook: the home squares; over: the squares that must not be
\* threatened; between: the squares that must be empty; kto, rto: where
\* the king and the rook land.
CastleBranch(self, b, color, held, king, rook, over, between, kto, rto) ==
    IF ~held THEN Err("IllegalMove")
    ELSE IF \E i \in 1..Len(over) : color_threatens(self, other(color), over[i])
         THEN Err("IllegalMove")
    ELSE IF \E i \in 1..Len(between) : occupied(self, between[i])
         THEN Err("IllegalMove")
    ELSE IF piece(b, king) # Piece("King", color) THEN Err("IllegalMove")
    ELSE IF piece(b, rook) # Piece("Rook", color) THEN Err("IllegalMove")
    ELSE Ok([b EXCEPT
                !.board = [@ EXCEPT ![king] = NoPiece, ![rook] = NoPiece,
                                    ![kto] = Piece("King", color),
                                    ![rto] = Piece("Rook", color)],
                !.castle_rights = DropRights(@, color)])

CastleKingside(self, b, color) ==
    IF color = White
    THEN CastleBranch(self, b, color, castle_kingside_rights(self, color),
                      e1, h1, <<e1, f1, g1>>, <<f1, g1>>, g1, f1)
    ELSE CastleBranch(self, b, color, castle_kingside_rights(self, color),
                      e8, h8, <<e8, f8, g8>>, <<f8, g8>>, g8, f8)

CastleQueenside(self, b, color) ==
    IF color = White
    THEN CastleBranch(self, b, color, castle_queenside_rights(self, color),
                      e1, a1, <<e1, d1, c1>>, <<b1, c1, d1>>, c1, d1)
    ELSE CastleBranch(self, b, color, castle_queenside_rights(self, color),
                      e8, a8, <<e8, d8, c8>>, <<b8, c8, d8>>, c8, d8)

\* the en-passant branch
EnPassantBranch(b, m, color) ==
    LET ep == b.en_passant_target
        p == piece(b, m.from)
        target_piece_at == IF color = White THEN south(m.to, 1) ELSE north(m.to, 1)
    IN  IF ep = NoPos THEN Err("IllegalMove")
        ELSE IF ep # m.to THEN Err("IllegalMove")
        ELSE IF p = NoPiece THEN Err("IllegalMove")
        ELSE IF p.color # color THEN Err("IllegalMove")
        ELSE IF target_piece_at = NoPos THEN Err("Panic")
        ELSE IF m.to # m.from /\ piece(b, m.to) # NoPiece THEN Err("BadBoardState")
        ELSE LET q == IF target_piece_at = m.from THEN NoPiece
                      ELSE piece(b, target_piece_at)
             IN  IF q = NoPiece THEN Err("IllegalMove")
                 ELSE IF q.color = color THEN Err("IllegalMove")
                 ELSE Ok([b EXCEPT
                             !.board = [@ EXCEPT ![m.from] = NoPiece,
                                                 ![target_piece_at] = NoPiece,
                                                 ![m.to] = p],
                             !.en_passant_target = NoPos])

\* the rights a rook leaving its corner gives up
RookRights(cr, color, from) ==
    IF color = White
    THEN [cr EXCEPT ![0] = IF from = h1 THEN FALSE ELSE @,
                    ![1] = IF from = a1 THEN FALSE ELSE @]
    ELSE [cr EXCEPT ![2] = IF from = h8 THEN FALSE ELSE @,
                    ![3] = IF from = a8 THEN FALSE ELSE @]

\* the regular branch
RegularBranch(b, m, color) ==
    LET p == piece(b, m.from)
        cr1 == IF p.kind = "King" THEN DropRights(b.castle_rights, color)
               ELSE b.castle_rights
        cr2 == IF p.kind = "Rook" THEN RookRights(cr1, color, m.from) ELSE cr1
        \* the target is read after the mover was taken from its square
        q == IF m.to = m.from THEN NoPiece ELSE piece(b, m.to)
        placed == IF m.promotion # "None" THEN Piece(m.promotion, p.color) ELSE p
    IN  IF p = NoPiece THEN Err("Panic")
        ELSE IF p.color # color THEN Err("IllegalMove")
        ELSE IF m.takes /\ q = NoPiece THEN Err("IllegalMove")
        ELSE IF q # NoPiece /\ q.color = color THEN Err("IllegalMove")
        ELSE IF m.promotion # "None" /\ p.kind # "Pawn" THEN Err("IllegalMove")
        ELSE Ok([b EXCEPT
                    !.board = [@ EXCEPT ![m.from] = NoPiece, ![m.to] = placed],
                    !.castle_rights = cr2])

\* a make_move that lets the mover stay in check
NoGuard(r, color) == r

\* the self-check guard on the board a branch produced
SelfCheckGuard(r, color) ==
    IF ~r.ok THEN r
    ELSE LET kings == get_pieces_by_type_and_color(r.board, "King", color)
         IN  IF Len(kings) = 1 /\ color_threatens(r.board, other(color), kings[1])
             THEN Err("IllegalMove")
             ELSE r

\* a halfmove clock that only captures reset
HalfmoveOfCaptures(clock, m) == IF m.takes THEN 0 ELSE clock + 1

\* the halfmove clock after the move m
Halfmove(clock, m) == IF m.takes \/ m.kind = "Pawn" THEN 0 ELSE clock + 1

make_move(self, m) ==
    LET color == self.color_to_move
        b == [self EXCEPT
                 !.color_to_move = other(color),
                 !.move_number = IF color = Black THEN @ + 1 ELSE @,
                 !.halfmove_clock = Halfmove(@, m)]
        branch ==
            IF m.castle = "Kingside" THEN CastleKingside(self, b, color)
            ELSE IF m.castle = "Queenside" THEN CastleQueenside(self, b, color)
            ELSE IF m.en_passant THEN EnPassantBranch(b, m, color)
            ELSE RegularBranch(b, m, color)
    IN  SelfCheckGuard(branch, color)


(***************************************************************************)
(* moves.rs: the ordering of Move used by moves.sort().  The derived       *)
(* ordering compares the fields in declaration order: kind, from, to,      *)
(* takes, en_passant, promotion, castle.                                   *)
(***************************************************************************)
BoolOrd(x) == IF x THEN 1 ELSE 0

PromotionOrd(p) == IF p = "None" THEN 0 ELSE 1 + order(p)

CastleOrd(c) == IF c = "None" THEN 0 ELSE IF c = "Kingside" THEN 1 ELSE 2

MoveKey(m) ==
    << order(m.kind), m.from, m.to, BoolOrd(m.takes), BoolOrd(m.en_passant),
       PromotionOrd(m.promotion), CastleOrd(m.castle) >>

RECURSIVE KeyLess(_, _, _)
KeyLess(x, y, i) ==
    IF i > Len(x) THEN FALSE
    ELSE IF x[i] # y[i] THEN x[i] < y[i]
    ELSE KeyLess(x, y, i + 1)

MoveLess(m, n) == KeyLess(MoveKey(m), MoveKey(n), 1)

\* Insert m into the sorted sequence s after every element not greater than
\* it (the sort is stable).
RECURSIVE InsertMove(_, _)
InsertMove(s, m) ==
    IF s = << >> THEN << m >>
    ELSE IF MoveLess(m, Head(s)) THEN << m >> \o s
    ELSE << Head(s) >> \o InsertMove(Tail(s), m)

RECURSIVE SortMoves(_, _, _)
SortMoves(ms, i, acc) ==
    IF i > Len(ms) THEN acc
    ELSE SortMoves(ms, i + 1, InsertMove(acc, ms[i]))

(***************************************************************************)
(* board_moves.rs: legal_moves.                                            *)
(***************************************************************************)
\* no filter: the pseudo-legal moves from index i on
KeepAll(b, ms, i) == SubSeq(ms, i, Len(ms))

\* the moves of ms, from index i on, that make_move accepts
RECURSIVE FilterOk(_, _, _)
FilterOk(b, ms, i) ==
    IF i > Len(ms) THEN << >>
    ELSE (IF make_move(b, ms[i]).ok THEN << ms[i] >> ELSE << >>)
         \o FilterOk(b, ms, i + 1)

\* the end of legal_moves: the check for checkmate, stalemate, no moves,
\* on the sorted legal moves
\* a legal_moves that calls a position with a threatened king and no move
\* a checkmate however many kings there are
MateIfThreatened(b, c, sorted) ==
    IF Len(sorted) = 0
    THEN IF \E k \in Squares : piece(b, k) = Piece("King", c)
                                  /\ color_threatens(b, other(c), k)
         THEN [err |-> "Checkmate", moves |-> <<>>]
         ELSE [err |-> "Stalemate", moves |-> <<>>]
    ELSE [err |-> "None", moves |-> sorted]

MateOrMoves(b, c, sorted) ==
    IF Len(sorted) = 0
    THEN IF Len(get_pieces_by_type_and_color(b, "King", c)) = 1
            /\ color_threatens(b, other(c),
                               get_pieces_by_type_and_color(b, "King", c)[1])
         THEN [err |-> "Checkmate", moves |-> << >>]
         ELSE [err |-> "Stalemate", moves |-> << >>]
    ELSE [err |-> "None", moves |-> sorted]

\* The result of legal_moves: err is "None" with the sorted moves, or
\* "Checkmate" / "Stalemate", or "Panic" when the generator panics.  The
\* moves the generator returns have a piece on from, so make_move does not
\* panic on them.
legal_moves(b) ==
    IF moves_panics(b) THEN [err |-> "Panic", moves |-> << >>]
    ELSE MateOrMoves(b, b.color_to_move,
                     SortMoves(FilterOk(b, moves(b), 1), 1, << >>))

(***************************************************************************)
(* board_threatens.rs: nthreats, the mobility term of the evaluation.      *)
(***************************************************************************)
\* the closure f: 2 for an opposing piece, 1 for an empty square
Reach(b, color, ray) ==
    IF piece(b, ray) = NoPiece THEN 1
    ELSE IF piece(b, ray).color = other(color) THEN 2
    ELSE 0

pawn_nthreats(b, pos, color) ==
    LET f(ray) ==
            IF ray = NoPos THEN 0
            ELSE Reach(b, color, ray)
                 + (IF is_en_passant_target(b, ray) THEN 2 ELSE 0)
    IN  IF color = White
        THEN f(northeast(pos, 1)) + f(northwest(pos, 1))
        ELSE f(southeast(pos, 1)) + f(southwest(pos, 1))

RECURSIVE HopNThreats(_, _, _, _, _)
HopNThreats(b, pos, color, hops, i) ==
    IF i > Len(hops) THEN 0
    ELSE LET ray == mv(pos, hops[i][1], hops[i][2])
         IN  (IF ray = NoPos THEN 0 ELSE Reach(b, color, ray))
             + HopNThreats(b, pos, color, hops, i + 1)

king_nthreats(b, pos, color) == HopNThreats(b, pos, color, KingHops, 1)

knight_nthreats(b, pos, color) == HopNThreats(b, pos, color, KnightHops, 1)

\* one ray of a sliding piece: every square up to the edge of the board is
\* counted, the loop has no exit on an occupied square
RECURSIVE RayNThreats(_, _, _, _)
RayNThreats(b, ray, d, color) ==
    LET nxt == mv(ray, d[1], d[2])
    IN  IF nxt = NoPos THEN 0
        ELSE Reach(b, color, nxt) + RayNThreats(b, nxt, d, color)

RECURSIVE SlideNThreats(_, _, _, _, _)
SlideNThreats(b, pos, color, dirs, i) ==
    IF i > Len(dirs) THEN 0
    ELSE RayNThreats(b, pos, dirs[i], color)
         + SlideNThreats(b, pos, color, dirs, i + 1)

bishop_nthreats(b, pos, color) == SlideNThreats(b, pos, color, BishopDirs, 1)

rook_nthreats(b, pos, color) == SlideNThreats(b, pos, color, RookDirs, 1)

queen_nthreats(b, pos, color) == SlideNThreats(b, pos, color, QueenDirs, 1)

nthreats(b, pos, p) ==
    CASE p.kind = "Pawn" -> pawn_nthreats(b, pos, p.color)
      [] p.kind = "Knight" -> knight_nthreats(b, pos, p.color)
      [] p.kind = "Bishop" -> bishop_nthreats(b, pos, p.color)
      [] p.kind = "Rook" -> rook_nthreats(b, pos, p.color)
      [] p.kind = "Queen" -> queen_nthreats(b, pos, p.color)
      [] p.kind = "King" -> king_nthreats(b, pos, p.color)

(***************************************************************************)
(* board_alpha_beta.rs: the static evaluation.                             *)
(***************************************************************************)
Material(k) ==
    CASE k = "Pawn" -> 100
      [] k = "Knight" -> 300
      [] k = "Bishop" -> 300
      [] k = "Rook" -> 500
      [] k = "Queen" -> 900
      [] k = "King" -> ISizeMax \div 2

piece_score(b, pos, p) == nthreats(b, pos, p) + value(pos) + Material(p.kind)

RECURSIVE SumScores(_, _, _)
SumScores(b, locs, i) ==
    IF i > Len(locs) THEN 0
    ELSE piece_score(b, locs[i], piece(b, locs[i])) + SumScores(b, locs, i + 1)

\* the score of the board in centipawns, from the side of color
score(b, color) ==
    SumScores(b, get_pieces_by_color(b, color), 1)
    - SumScores(b, get_pieces_by_color(b, other(color)), 1)


(***************************************************************************)
(* board_from_fen.rs: to_fen, the key of the transposition table.          *)
(***************************************************************************)
FileChars == <<"a", "b", "c", "d", "e", "f", "g", "h">>

\* util::to_algebra
to_algebra(coord) == FileChars[file(coord) + 1] \o ToString(8 - rank(coord))

PieceChar(p) ==
    IF p.color = White
    THEN CASE p.kind = "Pawn" -> "P" [] p.kind = "Knight" -> "N"
           [] p.kind = "Bishop" -> "B" [] p.kind = "Rook" -> "R"
           [] p.kind = "Queen" -> "Q" [] p.kind = "King" -> "K"
    ELSE CASE p.kind = "Pawn" -> "p" [] p.kind = "Knight" -> "n"
           [] p.kind = "Bishop" -> "b" [] p.kind = "Rook" -> "r"
           [] p.kind = "Queen" -> "q" [] p.kind = "King" -> "k"

\* the squares j..7 of rank i, n empty squares pending
RECURSIVE FenRank(_, _, _, _)
FenRank(b, i, j, n) ==
    IF j > 7 THEN ""
    ELSE LET p == piece(b, PosNew(i, j))
         IN  IF p = NoPiece
             THEN (IF j = 7 THEN ToString(n + 1) ELSE "")
                  \o FenRank(b, i, j + 1, n + 1)
             ELSE (IF n > 0 THEN ToString(n) ELSE "") \o PieceChar(p)
                  \o FenRank(b, i, j + 1, 0)

RECURSIVE FenRanks(_, _)
FenRanks(b, i) ==
    IF i > 7 THEN ""
    ELSE FenRank(b, i, 0, 0) \o (IF i < 7 THEN "/" ELSE " ") \o FenRanks(b, i + 1)

FenCastle(cr) ==
    IF ~(\E i \in 0..3 : cr[i]) THEN "-"
    ELSE (IF cr[0] THEN "K" ELSE "") \o (IF cr[1] THEN "Q" ELSE "")
         \o (IF cr[2] THEN "k" ELSE "") \o (IF cr[3] THEN "q" ELSE "")

to_fen(b) ==
    FenRanks(b, 0)
    \o (IF b.color_to_move = White THEN "w " ELSE "b ")
    \o FenCastle(b.castle_rights)
    \o " "
    \o (IF b.en_passant_target # NoPos THEN to_algebra(b.en_passant_target) ELSE "-")
    \o " " \o ToString(b.halfmove_clock) \o " " \o ToString(b.move_number)

(***************************************************************************)
(* board_from_fen.rs: from_fen.  The text is read character by character;  *)
(* the result is Ok(board), the error "ParseError", or "Panic" when a      *)
(* token or a character that is indexed is not there.                      *)
(***************************************************************************)
\* str::split(" "): the tokens of s from character i on, tok the one under way
RECURSIVE Split(_, _, _)
Split(s, i, tok) ==
    IF i > Len(s) THEN <<tok>>
    ELSE IF SubSeq(s, i, i) = " " THEN <<tok>> \o Split(s, i + 1, "")
    ELSE Split(s, i + 1, tok \o SubSeq(s, i, i))

DigitChars == <<"0", "1", "2", "3", "4", "5", "6", "7", "8", "9">>

IsDigit(c) == \E d \in 1..10 : DigitChars[d] = c

DigitOf(c) == (CHOOSE d \in 1..10 : DigitChars[d] = c) - 1

PieceChars == {"P", "p", "B", "b", "N", "n", "R", "r", "Q", "q", "K", "k"}

\* the piece a letter of the board field stands for
PieceOfChar(c) ==
    CASE c = "P" -> Piece("Pawn", White)     [] c = "p" -> Piece("Pawn", Black)
      [] c = "B" -> Piece("Bishop", White)   [] c = "b" -> Piece("Bishop", Black)
      [] c = "N" -> Piece("Knight", White)   [] c = "n" -> Piece("Knight", Black)
      [] c = "R" -> Piece("Rook", White)     [] c = "r" -> Piece("Rook", Black)
      [] c = "Q" -> Piece("Queen", White)    [] c = "q" -> Piece("Queen", Black)
      [] c = "K" -> Piece("King", White)     [] c = "k" -> Piece("King", Black)

\* the loop over the characters of the board field from the k-th on, with
\* the rank i and the file j the next piece goes to
RECURSIVE FenBoard(_, _, _, _, _)
FenBoard(tok, k, i, j, b) ==
    IF k > Len(tok) THEN Ok(b)
    ELSE LET c == SubSeq(tok, k, k)
         IN  CASE c = "/" -> FenBoard(tok, k + 1, i + 1, 0, b)
               [] IsDigit(c) /\ DigitOf(c) \in 1..8 ->
                    FenBoard(tok, k + 1, i, j + DigitOf(c), b)
               [] c \in PieceChars ->
                    IF i * 8 + j >= 64 THEN Err("ParseError")
                    ELSE FenBoard(tok, k + 1, i, j + 1,
                                  [b EXCEPT !.board[i * 8 + j] = PieceOfChar(c)])
               [] OTHER -> Err("ParseError")

\* the turn field
FenTurn(tok, b) ==
    IF tok \in {"w", "W"} THEN Ok([b EXCEPT !.color_to_move = White])
    ELSE IF tok \in {"b", "B"} THEN Ok([b EXCEPT !.color_to_move = Black])
    ELSE Err("ParseError")

\* the loop over the characters of the castling field
RECURSIVE FenRights(_, _, _)
FenRights(tok, k, b) ==
    IF k > Len(tok) THEN Ok(b)
    ELSE LET c == SubSeq(tok, k, k)
         IN  CASE c = "K" -> FenRights(tok, k + 1, [b EXCEPT !.castle_rights[0] = TRUE])
               [] c = "Q" -> FenRights(tok, k + 1, [b EXCEPT !.castle_rights[1] = TRUE])
               [] c = "k" -> FenRights(tok, k + 1, [b EXCEPT !.castle_rights[2] = TRUE])
               [] c = "q" -> FenRights(tok, k + 1, [b EXCEPT !.castle_rights[3] = TRUE])
               [] c = "-" -> FenRights(tok, k + 1, b)
               [] OTHER -> Err("ParseError")

\* an en-passant field that is skipped
FenTargetSkipped(tok, b) == Ok(b)

\* the en-passant field: "-" or a square, read by util::from_algebra from
\* the first two characters of the token
FenTarget(tok, b) ==
    IF tok = "-" THEN Ok(b)
    ELSE IF Len(tok) < 2 THEN Err("Panic")
    ELSE LET col == {f \in 1..8 : FileChars[f] = SubSeq(tok, 1, 1)}
             digit == SubSeq(tok, 2, 2)
         IN  IF col = {} \/ ~IsDigit(digit) \/ DigitOf(digit) \notin 1..8
             THEN Err("ParseError")
             ELSE Ok([b EXCEPT !.en_passant_target =
                         from_algebra((CHOOSE f \in col : TRUE) - 1, DigitOf(digit))])

\* str::parse::<usize>: the number the digits of tok from the k-th on make
\* with acc, -1 when there is another character among them
RECURSIVE ParseDigits(_, _, _)
ParseDigits(tok, k, acc) ==
    IF k > Len(tok) THEN acc
    ELSE IF ~IsDigit(SubSeq(tok, k, k)) THEN -1
    ELSE ParseDigits(tok, k + 1, acc * 10 + DigitOf(SubSeq(tok, k, k)))

\* str::parse::<usize>: digits after an optional "+"; -1 for an error
ParseUsize(tok) ==
    LET body == IF Len(tok) > 0 /\ SubSeq(tok, 1, 1) = "+"
                THEN SubSeq(tok, 2, Len(tok)) ELSE tok
    IN  IF body = "" THEN -1 ELSE ParseDigits(body, 1, 0)

\* the fields are read in order; the first that fails ends the parse, and a
\* field that is not among the tokens is a panic (tokens[n])
FenFields(tokens, n, r) ==
    IF ~r.ok THEN r
    ELSE IF Len(tokens) < n THEN Err("Panic")
    ELSE CASE n = 2 -> FenTurn(tokens[2], r.board)
           [] n = 3 -> FenRights(tokens[3], 1, r.board)
           [] n = 4 -> FenTarget(tokens[4], r.board)

from_fen(fen) ==
    LET tokens == Split(fen, 1, "")
        placed == FenBoard(tokens[1], 1, 0, 0, BoardNew)
        turned == FenFields(tokens, 2, placed)
        rights == FenFields(tokens, 3, turned)
        target == FenFields(tokens, 4, rights)
    IN  IF ~target.ok THEN target
        ELSE IF Len(tokens) < 5 THEN Err("Panic")
        ELSE IF ParseUsize(tokens[5]) < 0 THEN Err("ParseError")
        ELSE IF Len(tokens) < 6 THEN Err("Panic")
        ELSE IF ParseUsize(tokens[6]) < 0 THEN Err("ParseError")
        ELSE Ok([target.board EXCEPT !.halfmove_clock = ParseUsize(tokens[5]),
                                     !.move_number = ParseUsize(tokens[6])])

(***************************************************************************)
(* transposition_table.rs: one map from FEN to value per search level.     *)
(* A table is a sequence of functions; level d is element d + 1.           *)
(***************************************************************************)
EmptyMap == [k \in {} |-> 0]

TableNew(max_depth) == [i \in 1..max_depth |-> EmptyMap]

\* depth_tables[depth] panics when depth is not an index of the vector
TableOutOfRange(t, depth) == depth >= Len(t)

TableHas(t, b, depth) == to_fen(b) \in DOMAIN t[depth + 1]

TableGet(t, b, depth) == t[depth + 1][to_fen(b)]

TableInsert(t, b, depth, result) ==
    LET key == to_fen(b)
        old == t[depth + 1]
    IN  [t EXCEPT ![depth + 1] =
            [k \in DOMAIN old \cup {key} |-> IF k = key THEN result ELSE old[k]]]


(***************************************************************************)
(* board_alpha_beta.rs: alpha_beta and alpha_beta_rec.                     *)
(*                                                                         *)
(* A search runs in a context cx = [use, abortAt]: use says whether a      *)
(* transposition table was passed, abortAt is the number of reads of the   *)
(* abort flag that return false before the reads return true (Never when   *)
(* no read returns true, or no flag was passed).  The state threaded       *)
(* through the recursion is st = [tt, n]: the table and the number of      *)
(* reads of the flag made so far.  The result carries the value, the       *)
(* state, and whether the search panicked.                                 *)
(***************************************************************************)
Never == -1

Context(use, abortAt) == [use |-> use, abortAt |-> abortAt]

Value(v, st) == [val |-> v, panic |-> FALSE, tt |-> st.tt, n |-> st.n]

Panicked(st) == [val |-> 0, panic |-> TRUE, tt |-> st.tt, n |-> st.n]

\* a searcher that does not look at the flag
AbortIgnored(cx, st) == FALSE

AbortRead(cx, st) == cx.abortAt # Never /\ st.n >= cx.abortAt

Max(x, y) == IF x >= y THEN x ELSE y

Min(x, y) == IF x <= y THEN x ELSE y

RECURSIVE alpha_beta_rec(_, _, _, _, _, _, _, _)
RECURSIVE SearchMoves(_, _, _, _, _, _, _, _, _, _, _)

\* the end of alpha_beta_rec: the transposition table is updated with ret
UpdateTable(self, depth, cx, ret, st) ==
    IF cx.use
    THEN Value(ret, [tt |-> TableInsert(st.tt, self, depth, ret), n |-> st.n])
    ELSE Value(ret, st)

\* v, alpha and beta after the score of one move
NewV(maximizing, v, val) == IF maximizing THEN Max(v, val) ELSE Min(v, val)

\* alpha raised in the minimizing player as well
NewAlphaInBoth(maximizing, alpha, v, val) ==
    Max(alpha, IF maximizing THEN Max(v, val) ELSE Min(v, val))

NewAlpha(maximizing, alpha, v, val) ==
    IF maximizing THEN Max(alpha, Max(v, val)) ELSE alpha

NewBeta(maximizing, beta, v, val) ==
    IF maximizing THEN beta ELSE Min(beta, Min(v, val))

\* one iteration of the loop over the moves, given the result r of the
\* recursive call on move i
NextMove(self, lm, i, my_color, depth, max_depth, alpha, beta, v, cx, r) ==
    CASE r.panic -> r
      [] ~r.panic /\ NewBeta(self.color_to_move = my_color, beta, v, r.val)
                        <= NewAlpha(self.color_to_move = my_color, alpha, v, r.val) ->
            UpdateTable(self, depth, cx,
                        NewV(self.color_to_move = my_color, v, r.val), r)
      [] OTHER ->
            SearchMoves(self, lm, i + 1, my_color, depth, max_depth,
                        NewAlpha(self.color_to_move = my_color, alpha, v, r.val),
                        NewBeta(self.color_to_move = my_color, beta, v, r.val),
                        NewV(self.color_to_move = my_color, v, r.val),
                        cx, [tt |-> r.tt, n |-> r.n])

\* the match on legal_moves, lm, in the maximizing or the minimizing player,
\* and its loop over the moves from index i on, with the running v, alpha
\* and beta
SearchMoves(self, lm, i, my_color, depth, max_depth, alpha, beta, v, cx, st) ==
    CASE lm.err = "Checkmate" ->
            Value(IF self.color_to_move = my_color
                  THEN ISizeMin + 1 ELSE ISizeMax - 1, st)
      [] lm.err = "Stalemate" -> Value(0, st)
      [] lm.err = "Panic" -> Panicked(st)
      [] lm.err = "None" /\ i > Len(lm.moves) ->
            UpdateTable(self, depth, cx, v, st)
      [] OTHER ->
            NextMove(self, lm, i, my_color, depth, max_depth, alpha, beta, v, cx,
                     alpha_beta_rec(make_move(self, lm.moves[i]).board, my_color,
                                    depth + 1, max_depth, alpha, beta, cx, st))

\* the state after the test of depth and the abort flag: the flag is read
\* when depth is not max_depth and a flag was passed
AfterRead(max_depth, depth, cx, st) ==
    IF depth = max_depth \/ cx.abortAt = Never THEN st
    ELSE [st EXCEPT !.n = @ + 1]

alpha_beta_rec(self, my_color, depth, max_depth, alpha_in, beta_in, cx, st) ==
    CASE cx.use /\ TableOutOfRange(st.tt, depth) -> Panicked(st)
      [] cx.use /\ ~TableOutOfRange(st.tt, depth) /\ TableHas(st.tt, self, depth) ->
            Value(TableGet(st.tt, self, depth), st)
      [] OTHER ->
            IF depth = max_depth \/ AbortRead(cx, st)
            THEN Value(score(self, my_color), AfterRead(max_depth, depth, cx, st))
            ELSE SearchMoves(self, legal_moves(self), 1, my_color, depth, max_depth,
                             alpha_in, beta_in,
                             IF self.color_to_move = my_color
                             THEN ISizeMin ELSE ISizeMax,
                             cx, AfterRead(max_depth, depth, cx, st))

alpha_beta(self, max_depth, cx, tt) ==
    alpha_beta_rec(self, other(self.color_to_move), 0, max_depth,
                   ISizeMin, ISizeMax, cx, [tt |-> tt, n |-> 0])

(***************************************************************************)
(* board_alpha_beta.rs: best_move, the single-threaded search.  The result *)
(* depends on rng.gen() when two scores are equal: best_move is the set of *)
(* the results the call may return.                                        *)
(***************************************************************************)
Chosen(m, v) == [ok |-> TRUE, err |-> "None", mv |-> m, val |-> v]

NotChosen(e) == [ok |-> FALSE, err |-> e, mv |-> [kind |-> "None"], val |-> 0]

\* what one iteration makes of move m: a score, or a result that is
\* returned at once
Scored(v) == [returns |-> FALSE, res |-> NotChosen("None"), val |-> v]

Returned(r) == [returns |-> TRUE, res |-> r, val |-> 0]

\* the search of the board after move m, when max_depth is not 0
Searched(r) == IF r.panic THEN Returned(NotChosen("Panic")) ELSE Scored(r.val)

MoveScore(self, m, max_depth, r) ==
    IF max_depth = 0
    THEN CASE r.err = "Checkmate" -> Returned(Chosen(m, ISizeMax - 1))
           [] r.err = "Stalemate" -> Scored(0)
           [] r.ok -> Scored(score(r.board, self.color_to_move))
           [] OTHER -> Returned(NotChosen(r.err))
    ELSE IF ~r.ok THEN Returned(NotChosen(r.err))
    ELSE Searched(alpha_beta(r.board, max_depth, Context(TRUE, Never),
                             TableNew(max_depth + 1)))

\* a loop that keeps the first move whatever the scores
KeepFirst(best, m, sc, coin) == IF best.ok THEN best ELSE Chosen(m, sc)

\* best_move and best_score after the score sc of move m; coin is rng.gen()
BestMoveNext(best, m, sc, coin) ==
    IF sc > best.val \/ (sc = best.val /\ coin) THEN Chosen(m, sc) ELSE best

RECURSIVE BestMoveLoop(_, _, _, _, _)

BestMoveStep(self, ms, i, max_depth, bests, s) ==
    IF s.returns THEN {s.res}
    ELSE BestMoveLoop(self, ms, i + 1, max_depth,
                      {BestMoveNext(b, ms[i], s.val, coin) :
                          b \in bests, coin \in BOOLEAN})

\* the loop over the moves from the i-th on; bests are the values that
\* Chosen(best_move, best_score) may have, NotChosen while best_move is None
BestMoveLoop(self, ms, i, max_depth, bests) ==
    IF i > Len(ms)
    THEN {IF b.ok THEN b ELSE NotChosen("Panic") : b \in bests}
    ELSE BestMoveStep(self, ms, i, max_depth, bests,
                      MoveScore(self, ms[i], max_depth, make_move(self, ms[i])))

best_move(self, max_depth) ==
    LET lm == legal_moves(self)
    IN  IF lm.err # "None" THEN {NotChosen(lm.err)}
        ELSE BestMoveLoop(self, lm.moves, 1, max_depth,
                          {[NotChosen("None") EXCEPT !.val = ISizeMin]})


(***************************************************************************)
(* Positions the searches are started on.  Place puts the listed pieces    *)
(* on the empty board of Board::new, as from_fen does rank by rank.        *)
(***************************************************************************)
RECURSIVE Place(_, _, _)
Place(bd, ps, i) ==
    IF i > Len(ps) THEN bd
    ELSE Place([bd EXCEPT ![ps[i][1]] = Piece(ps[i][2], ps[i][3])], ps, i + 1)

Position(ps, c) ==
    [BoardNew EXCEPT !.board = Place(EmptyBoard, ps, 1), !.color_to_move = c]

\* 7k/8/8/8/8/8/8/N7 w: two knight moves of equal value
TieBoard ==
    Position(<< <<h8, "King", Black>>, <<a1, "Knight", White>> >>, White)

\* 7k/6Q1/6K1/8/8/8/8/8 b: Black is checkmated
MateBoard ==
    Position(<< <<h8, "King", Black>>, <<from_algebra(6, 7), "Queen", White>>,
                <<from_algebra(6, 6), "King", White>> >>, Black)

\* 7k/5Q2/6K1/8/8/8/8/8 b: Black is stalemated
StaleBoard ==
    Position(<< <<h8, "King", Black>>, <<from_algebra(5, 7), "Queen", White>>,
                <<from_algebra(6, 6), "King", White>> >>, Black)

\* 5p1b/5p2/5p1p/5P1P/p1p5/P1P5/2P5/B1P5 w: every pawn is blocked and each
\* side has one bishop with one move, so every line is as long as the search
CorridorBoard ==
    Position(<< <<f8, "Pawn", Black>>, <<h8, "Bishop", Black>>,
                <<from_algebra(5, 7), "Pawn", Black>>,
                <<from_algebra(5, 6), "Pawn", Black>>,
                <<from_algebra(7, 6), "Pawn", Black>>,
                <<from_algebra(5, 5), "Pawn", White>>,
                <<from_algebra(7, 5), "Pawn", White>>,
                <<from_algebra(0, 4), "Pawn", Black>>,
                <<from_algebra(2, 4), "Pawn", Black>>,
                <<from_algebra(0, 3), "Pawn", White>>,
                <<from_algebra(2, 3), "Pawn", White>>,
                <<from_algebra(2, 2), "Pawn", White>>,
                <<a1, "Bishop", White>>, <<c1, "Pawn", White>> >>, White)

\* 7k/8/8/8/8/8/3P4/8 w: two pawn moves of different value
PawnBoard ==
    Position(<< <<h8, "King", Black>>, <<from_algebra(3, 2), "Pawn", White>> >>,
             White)

\* the (position, depth) pairs find_best_move is called with
PoolInputs ==
    {<<TieBoard, MaxDepth>>, <<PawnBoard, MaxDepth>>, <<MateBoard, MaxDepth>>,
     <<StaleBoard, MaxDepth>>, <<CorridorBoard, TableLevels>>}

(***************************************************************************)
(* threadpool.rs: the state of a Threadpool, its workers, the aggregator   *)
(* thread of the running search, and the front-end thread that owns the    *)
(* pool (main.rs, bin/benchmark.rs).                                       *)
(***************************************************************************)
VARIABLES
    thinking,   \* Threadpool.thinking
    abort,      \* Threadpool.abort
    result,     \* Threadpool.result_mutex: NoResult or an outcome
    jobs,       \* JobQueue.jobs, the last element is the top of the Vec
    chan,       \* the results sent and not yet received
    table,      \* the transposition table of the running search
    wpc,        \* where each worker is in its loop
    wjob,       \* the job each worker holds
    reads,      \* reads of the abort flag a worker made before abort was set
    agg,        \* the aggregator thread: pc, nmoves, nrecv, best_move, best_score
    pending,    \* searches whose aggregator has yet to call notify_all
    fe,         \* where the front-end thread is
    fb,         \* the last find_best_move call: board, depth, moves, i (0: returned)
    sid,        \* number of searches started
    notified,   \* searches the main signal has been notified for
    last,       \* the outcome of each search as it was stored
    received,   \* the job results the aggregator of this search received
    cleared,    \* the last search an abort_and_clear returned after
    cur,        \* the board of the board walk
    ply,        \* plies made on the walk
    out         \* what the last operation on the walk returned

poolVars ==
    << thinking, abort, result, jobs, chan, table, wpc, wjob, reads, agg,
       pending, fe, fb, sid, notified, last, received, cleared >>

boardVars == << cur, ply, out >>

vars == << poolVars, boardVars >>

Workers == 1..NWorkers

NoResult == [kind |-> "None"]

OkResult(m, val, s) == [kind |-> "Ok", mv |-> m, val |-> val, sid |-> s]

ErrResult(e, s) == [kind |-> "Err", err |-> e, sid |-> s]

NoJob == [kind |-> "None"]

Job(m, b, d) == [kind |-> "Job", mv |-> m, board |-> b, depth |-> d]

NoMove == [kind |-> "None"]

NoAggregator ==
    [pc |-> "none", nmoves |-> 0, nrecv |-> 0, best_move |-> NoMove,
     best_score |-> ISizeMin]

NoCall == [board |-> BoardNew, depth |-> 0, moves |-> << >>, i |-> 0]

\* Threadpool::new: the workers are spawned and start their loops
PoolInit ==
    /\ thinking = FALSE
    /\ abort = FALSE
    /\ result = NoResult
    /\ jobs = << >>
    /\ chan = << >>
    /\ table = TableNew(0)
    /\ wpc = [w \in Workers |-> "pop"]
    /\ wjob = [w \in Workers |-> NoJob]
    /\ reads = [w \in Workers |-> 0]
    /\ agg = NoAggregator
    /\ pending = {}
    /\ fe = "idle"
    /\ fb = NoCall
    /\ sid = 0
    /\ notified = {}
    /\ last = << >>
    /\ received = << >>
    /\ cleared = 0


(***************************************************************************)
(* threadpool.rs: the front-end's calls.                                   *)
(***************************************************************************)
\* Condvar::notify_one on jobs_available: one waiting worker, if there is
\* one, is woken
NotifyOne(pcs) ==
    IF \E w \in Workers : pcs[w] = "waiting"
    THEN {[pcs EXCEPT ![w] = "woken"] : w \in {x \in Workers : pcs[x] = "waiting"}}
    ELSE {pcs}

\* find_best_move without its second statement: the flag is left as it is
FindBestMoveKeepsAbort(inputs, searches) ==
    /\ fe = "idle"
    /\ ~thinking
    /\ result = NoResult
    /\ sid < searches
    /\ \E input \in inputs :
        \E lm \in {legal_moves(input[1])} :
            /\ sid' = sid + 1
            /\ abort' = abort
            /\ table' = TableNew(TableLevels)
            /\ received' = << >>
            /\ IF lm.err = "None"
               THEN /\ thinking' = TRUE
                    /\ fb' = [board |-> input[1], depth |-> input[2],
                                 moves |-> lm.moves, i |-> 1]
                    /\ fe' = "push"
                    /\ UNCHANGED << result, last >>
               ELSE IF lm.err = "Panic"
               THEN /\ thinking' = TRUE
                    /\ fe' = "panicked"
                    /\ UNCHANGED << result, last, fb >>
               ELSE \* Err(e): the error is stored and the call returns
                    /\ result' = ErrResult(lm.err, sid + 1)
                    /\ last' = Append(last, ErrResult(lm.err, sid + 1))
                    /\ thinking' = FALSE
                    /\ UNCHANGED << fe, fb >>
    /\ UNCHANGED << jobs, chan, wpc, wjob, reads, agg, pending, notified, cleared >>
    /\ UNCHANGED boardVars

\* find_best_move up to the match on legal_moves.  The front-end calls it
\* when the slot is empty and the pool is not thinking (main.rs 136, 173).
FindBestMoveOn(inputs, searches) ==
    /\ fe = "idle"
    /\ ~thinking
    /\ result = NoResult
    /\ sid < searches
    /\ \E input \in inputs :
        \E lm \in {legal_moves(input[1])} :
            /\ sid' = sid + 1
            /\ abort' = FALSE
            /\ table' = TableNew(TableLevels)
            /\ received' = << >>
            /\ IF lm.err = "None"
               THEN /\ thinking' = TRUE
                    /\ fb' = [board |-> input[1], depth |-> input[2],
                                 moves |-> lm.moves, i |-> 1]
                    /\ fe' = "push"
                    /\ UNCHANGED << result, last >>
               ELSE IF lm.err = "Panic"
               THEN /\ thinking' = TRUE
                    /\ fe' = "panicked"
                    /\ UNCHANGED << result, last, fb >>
               ELSE \* Err(e): the error is stored and the call returns
                    /\ result' = ErrResult(lm.err, sid + 1)
                    /\ last' = Append(last, ErrResult(lm.err, sid + 1))
                    /\ thinking' = FALSE
                    /\ UNCHANGED << fe, fb >>
    /\ UNCHANGED << jobs, chan, wpc, wjob, reads, agg, pending, notified, cleared >>
    /\ UNCHANGED boardVars

FindBestMove == FindBestMoveOn(PoolInputs, MaxSearches)

\* add_job, first statement: the job of move i is pushed
AddJobPush ==
    /\ fe = "push"
    /\ LET m == fb.moves[fb.i]
       IN  jobs' = Append(jobs, Job(m, make_move(fb.board, m).board, fb.depth))
    /\ fe' = "notify"
    /\ UNCHANGED << thinking, abort, result, chan, table, wpc, wjob, reads, agg,
                    pending, fb, sid, notified, last, received, cleared >>
    /\ UNCHANGED boardVars

\* add_job, second statement; after the last job the aggregator thread is
\* spawned and find_best_move returns
AddJobNotify ==
    /\ fe = "notify"
    /\ wpc' \in NotifyOne(wpc)
    /\ IF fb.i < Len(fb.moves)
       THEN /\ fb' = [fb EXCEPT !.i = @ + 1]
            /\ fe' = "push"
            /\ UNCHANGED agg
       ELSE /\ fb' = [fb EXCEPT !.i = 0]
            /\ fe' = "idle"
            /\ agg' = [pc |-> "recv", nmoves |-> Len(fb.moves), nrecv |-> 0,
                       best_move |-> NoMove, best_score |-> ISizeMin]
    /\ UNCHANGED << thinking, abort, result, jobs, chan, table, wjob, reads,
                    pending, sid, notified, last, received, cleared >>
    /\ UNCHANGED boardVars

\* The abort flag is set while some workers are inside a search: each of
\* them has made some number of reads of the flag that returned false.
SetAbort ==
    /\ abort' = TRUE
    /\ IF abort THEN UNCHANGED reads
       ELSE reads' \in {r \in [Workers -> 0..MaxReads] :
                           \A w \in Workers : wpc[w] # "run" => r[w] = 0}

\* Threadpool::abort
Abort ==
    /\ fe = "idle"
    /\ ~abort
    /\ SetAbort
    /\ UNCHANGED << thinking, result, jobs, chan, table, wpc, wjob, agg, pending,
                    fe, fb, sid, notified, last, received, cleared >>
    /\ UNCHANGED boardVars

\* abort_and_clear: self.abort()
AbortAndClear ==
    /\ fe = "idle"
    /\ SetAbort
    /\ fe' = "polling"
    /\ UNCHANGED << thinking, result, jobs, chan, table, wpc, wjob, agg, pending,
                    fb, sid, notified, last, received, cleared >>
    /\ UNCHANGED boardVars

\* abort_and_clear without its polling loop: it goes on to take the result
\* whatever thinking is
PollWithoutWaiting ==
    /\ fe = "polling"
    /\ fe' = "taking"
    /\ UNCHANGED << thinking, abort, result, jobs, chan, table, wpc, wjob, reads,
                    agg, pending, fb, sid, notified, last, received, cleared >>
    /\ UNCHANGED boardVars

\* abort_and_clear: the polling loop sees thinking false and exits
PollThinking ==
    /\ fe = "polling"
    /\ ~thinking
    /\ fe' = "taking"
    /\ UNCHANGED << thinking, abort, result, jobs, chan, table, wpc, wjob, reads,
                    agg, pending, fb, sid, notified, last, received, cleared >>
    /\ UNCHANGED boardVars

\* abort_and_clear: the result is taken and dropped, the call returns
ClearResult ==
    /\ fe = "taking"
    /\ result' = NoResult
    /\ cleared' = sid
    /\ fe' = "idle"
    /\ UNCHANGED << thinking, abort, jobs, chan, table, wpc, wjob, reads, agg,
                    pending, fb, sid, notified, last, received >>
    /\ UNCHANGED boardVars

\* has_result() is true and take_result() empties the slot (main.rs 136-144)
TakeResult ==
    /\ fe = "idle"
    /\ result # NoResult
    /\ result' = NoResult
    /\ UNCHANGED << thinking, abort, jobs, chan, table, wpc, wjob, reads, agg,
                    pending, fe, fb, sid, notified, last, received, cleared >>
    /\ UNCHANGED boardVars

\* the front-end finds no result and decides to wait (main.rs 136, 178)
SeeNoResult ==
    /\ fe = "idle"
    /\ result = NoResult
    /\ fe' = "checked"
    /\ UNCHANGED << thinking, abort, result, jobs, chan, table, wpc, wjob, reads,
                    agg, pending, fb, sid, notified, last, received, cleared >>
    /\ UNCHANGED boardVars

\* main_signal.wait(main_mutex.lock()): the front-end blocks
WaitMainSignal ==
    /\ fe = "checked"
    /\ fe' = "waiting"
    /\ UNCHANGED << thinking, abort, result, jobs, chan, table, wpc, wjob, reads,
                    agg, pending, fb, sid, notified, last, received, cleared >>
    /\ UNCHANGED boardVars

\* the main signal is notified by the stdin watcher or a clock, or the wait
\* returns spuriously
OtherWakeup ==
    /\ fe = "waiting"
    /\ fe' = "idle"
    /\ UNCHANGED << thinking, abort, result, jobs, chan, table, wpc, wjob, reads,
                    agg, pending, fb, sid, notified, last, received, cleared >>
    /\ UNCHANGED boardVars


(***************************************************************************)
(* threadpool.rs: the worker loop and JobQueue::next_job.                  *)
(***************************************************************************)
\* a pop that reads the top of the queue and leaves it there
PopJobLeaves(w) ==
    /\ wpc[w] = "pop"
    /\ IF jobs # << >>
       THEN /\ wjob' = [wjob EXCEPT ![w] = jobs[Len(jobs)]]
            /\ jobs' = jobs
            /\ wpc' = [wpc EXCEPT ![w] = "run"]
            /\ reads' = [reads EXCEPT ![w] = 0]
       ELSE /\ wpc' = [wpc EXCEPT ![w] = "prewait"]
            /\ UNCHANGED << wjob, jobs, reads >>
    /\ UNCHANGED << thinking, abort, result, chan, table, agg, pending, fe, fb,
                    sid, notified, last, received, cleared >>
    /\ UNCHANGED boardVars

\* next_job, first match: the queue is locked and popped; on None the lock
\* is released before the worker goes on to wait
PopJob(w) ==
    /\ wpc[w] = "pop"
    /\ IF jobs # << >>
       THEN /\ wjob' = [wjob EXCEPT ![w] = jobs[Len(jobs)]]
            /\ jobs' = SubSeq(jobs, 1, Len(jobs) - 1)
            /\ wpc' = [wpc EXCEPT ![w] = "run"]
            /\ reads' = [reads EXCEPT ![w] = 0]
       ELSE /\ wpc' = [wpc EXCEPT ![w] = "prewait"]
            /\ UNCHANGED << wjob, jobs, reads >>
    /\ UNCHANGED << thinking, abort, result, chan, table, agg, pending, fe, fb,
                    sid, notified, last, received, cleared >>
    /\ UNCHANGED boardVars

\* next_job, second match: the queue is locked again and the worker blocks
\* in jobs_available.wait, whatever the queue holds
WaitJobs(w) ==
    /\ wpc[w] = "prewait"
    /\ wpc' = [wpc EXCEPT ![w] = "waiting"]
    /\ UNCHANGED << thinking, abort, result, jobs, chan, table, wjob, reads, agg,
                    pending, fe, fb, sid, notified, last, received, cleared >>
    /\ UNCHANGED boardVars

\* Condvar::wait may return without a notification
SpuriousWakeup(w) ==
    /\ wpc[w] = "waiting"
    /\ wpc' = [wpc EXCEPT ![w] = "woken"]
    /\ UNCHANGED << thinking, abort, result, jobs, chan, table, wjob, reads, agg,
                    pending, fe, fb, sid, notified, last, received, cleared >>
    /\ UNCHANGED boardVars

\* next_job, second match: the woken worker pops; on None it loops
PopWoken(w) ==
    /\ wpc[w] = "woken"
    /\ IF jobs # << >>
       THEN /\ wjob' = [wjob EXCEPT ![w] = jobs[Len(jobs)]]
            /\ jobs' = SubSeq(jobs, 1, Len(jobs) - 1)
            /\ wpc' = [wpc EXCEPT ![w] = "run"]
            /\ reads' = [reads EXCEPT ![w] = 0]
       ELSE /\ wpc' = [wpc EXCEPT ![w] = "pop"]
            /\ UNCHANGED << wjob, jobs, reads >>
    /\ UNCHANGED << thinking, abort, result, chan, table, agg, pending, fe, fb,
                    sid, notified, last, received, cleared >>
    /\ UNCHANGED boardVars

\* worker: the job is searched and its result sent; a panic in the search
\* ends the worker thread
RunJob(w) ==
    /\ wpc[w] = "run"
    /\ \E job \in {wjob[w]} :
       \E r \in {alpha_beta(job.board, job.depth,
                            Context(TRUE, IF abort THEN reads[w] ELSE Never), table)} :
           IF r.panic
           THEN /\ wpc' = [wpc EXCEPT ![w] = "panicked"]
                /\ UNCHANGED << chan, table, wjob >>
           ELSE /\ table' = r.tt
                /\ chan' = Append(chan, [mv |-> job.mv, val |-> r.val])
                /\ wjob' = [wjob EXCEPT ![w] = NoJob]
                /\ wpc' = [wpc EXCEPT ![w] = "pop"]
    /\ UNCHANGED << thinking, abort, result, jobs, reads, agg, pending, fe, fb,
                    sid, notified, last, received, cleared >>
    /\ UNCHANGED boardVars

(***************************************************************************)
(* threadpool.rs: the aggregator thread spawned by find_best_move.         *)
(***************************************************************************)
\* a receive loop that keeps the last result it received, with no
\* comparison of the scores
ReceiveKeepsLast ==
    /\ agg.pc = "recv"
    /\ agg.nrecv < agg.nmoves
    /\ chan # << >>
    /\ agg' = [agg EXCEPT !.nrecv = @ + 1,
                          !.best_move = Head(chan).mv,
                          !.best_score = Head(chan).val]
    /\ chan' = Tail(chan)
    /\ received' = Append(received, Head(chan))
    /\ UNCHANGED << thinking, abort, result, jobs, table, wpc, wjob, reads, pending,
                    fe, fb, sid, notified, last, cleared >>
    /\ UNCHANGED boardVars

\* one iteration of the receive loop; coin is rng.gen()
Receive ==
    /\ agg.pc = "recv"
    /\ agg.nrecv < agg.nmoves
    /\ chan # << >>
    /\ \E coin \in BOOLEAN :
        LET r == Head(chan)
            better == r.val > agg.best_score \/ (r.val = agg.best_score /\ coin)
        IN  agg' = [agg EXCEPT !.nrecv = @ + 1,
                               !.best_move = IF better THEN r.mv ELSE @,
                               !.best_score = IF better THEN r.val ELSE @]
    /\ chan' = Tail(chan)
    /\ received' = Append(received, Head(chan))
    /\ UNCHANGED << thinking, abort, result, jobs, table, wpc, wjob, reads, pending,
                    fe, fb, sid, notified, last, cleared >>
    /\ UNCHANGED boardVars

\* an aggregator that stops at the first result it received
StoreFirstResult ==
    /\ agg.pc = "recv"
    /\ agg.nrecv >= 1
    /\ IF agg.best_move = NoMove
       THEN /\ agg' = [agg EXCEPT !.pc = "panicked"]
            /\ UNCHANGED << result, last >>
       ELSE /\ result' = OkResult(agg.best_move, agg.best_score, sid)
            /\ last' = Append(last, OkResult(agg.best_move, agg.best_score, sid))
            /\ agg' = [agg EXCEPT !.pc = "stored"]
    /\ UNCHANGED << thinking, abort, jobs, chan, table, wpc, wjob, reads, pending,
                    fe, fb, sid, notified, received, cleared >>
    /\ UNCHANGED boardVars

\* the loop is over: the best pair is stored in the result slot
StoreResult ==
    /\ agg.pc = "recv"
    /\ agg.nrecv = agg.nmoves
    /\ IF agg.best_move = NoMove
       THEN /\ agg' = [agg EXCEPT !.pc = "panicked"]
            /\ UNCHANGED << result, last >>
       ELSE /\ result' = OkResult(agg.best_move, agg.best_score, sid)
            /\ last' = Append(last, OkResult(agg.best_move, agg.best_score, sid))
            /\ agg' = [agg EXCEPT !.pc = "stored"]
    /\ UNCHANGED << thinking, abort, jobs, chan, table, wpc, wjob, reads, pending,
                    fe, fb, sid, notified, received, cleared >>
    /\ UNCHANGED boardVars

\* an aggregator that sets thinking to false before it stores the result
ClearThinkingFirst ==
    /\ agg.pc = "recv"
    /\ agg.nrecv = agg.nmoves
    /\ thinking
    /\ thinking' = FALSE
    /\ UNCHANGED << abort, result, jobs, chan, table, wpc, wjob, reads, fe, fb,
                    sid, notified, last, received, cleared, agg, pending >>
    /\ UNCHANGED boardVars

\* thinking is set to false
ClearThinking ==
    /\ agg.pc = "stored"
    /\ thinking' = FALSE
    /\ pending' = pending \cup {sid}
    /\ agg' = NoAggregator
    /\ UNCHANGED << abort, result, jobs, chan, table, wpc, wjob, reads, fe, fb,
                    sid, notified, last, received, cleared >>
    /\ UNCHANGED boardVars

\* main_signal.notify_all(): the front-end is woken if it is waiting
NotifyMain ==
    /\ \E s \in pending :
        /\ pending' = pending \ {s}
        /\ notified' = notified \cup {s}
    /\ fe' = IF fe = "waiting" THEN "idle" ELSE fe
    /\ UNCHANGED << thinking, abort, result, jobs, chan, table, wpc, wjob, reads,
                    agg, fb, sid, last, received, cleared >>
    /\ UNCHANGED boardVars

\* the steps of the pool but the start of a search
PoolSteps ==
    \/ AddJobPush
    \/ AddJobNotify
    \/ Abort
    \/ AbortAndClear
    \/ PollThinking
    \/ ClearResult
    \/ TakeResult
    \/ SeeNoResult
    \/ WaitMainSignal
    \/ OtherWakeup
    \/ \E w \in Workers : PopJob(w)
    \/ \E w \in Workers : WaitJobs(w)
    \/ \E w \in Workers : SpuriousWakeup(w)
    \/ \E w \in Workers : PopWoken(w)
    \/ \E w \in Workers : RunJob(w)
    \/ Receive
    \/ StoreResult
    \/ ClearThinking
    \/ NotifyMain

PoolNext ==
    \/ FindBestMove
    \/ PoolSteps

BoardIdle == cur = BoardNew /\ ply = 0 /\ out = [op |-> "none"]


Init == PoolInit /\ BoardIdle

Spec == Init /\ [][PoolNext]_vars


(***************************************************************************)
(* Scheduling.  The workers and the aggregator are threads of their own,   *)
(* and a call the front-end has started runs to its end: each of their     *)
(* steps is taken if it stays enabled.  Nothing makes the front-end start  *)
(* a search, abort one or take a result, and nothing makes a wait on a     *)
(* condition variable return without a notification.  RunJob(w) is enabled *)
(* whenever wpc[w] is "run" and is the only step that changes wpc[w] then, *)
(* so that WF_vars(RunJob(w)) is written []<>(wpc[w] # "run").             *)
(***************************************************************************)
Fairness ==
    /\ WF_vars(AddJobPush)
    /\ WF_vars(AddJobNotify)
    /\ WF_vars(PollThinking)
    /\ WF_vars(ClearResult)
    /\ WF_vars(WaitMainSignal)
    /\ \A w \in Workers :
        /\ WF_vars(PopJob(w))
        /\ WF_vars(WaitJobs(w))
        /\ WF_vars(PopWoken(w))
        /\ []<>(wpc[w] # "run")
    /\ WF_vars(Receive)
    /\ WF_vars(StoreResult)
    /\ WF_vars(ClearThinking)
    /\ WF_vars(NotifyMain)

FairSpec == Init /\ [][PoolNext]_vars /\ Fairness


(***************************************************************************)
(* Properties of the thread pool.                                          *)
(***************************************************************************)
Searches == 1..MaxSearches

\* a worker thread or the front-end thread has panicked
SomePanic == fe = "panicked" \/ \E w \in Workers : wpc[w] = "panicked"

\* search s is over: its outcome was stored as Ok and the main signal was
\* notified for it
Completed(s) ==
    /\ Len(last) >= s
    /\ last[s].kind = "Ok"
    /\ s \in notified

\* C1: after find_best_move is called on a position with n >= 1 legal
\* moves, with fair scheduling and no abort, eventually the aggregator has
\* received the n results, stored Ok((move, score)), set thinking to false
\* and notified the main signal.  Runs in which a thread panics are left
\* aside here: they are the matter of C7.
C1_SearchCompletes ==
    \A s \in Searches :
        (sid = s /\ fe = "push") ~> (Completed(s) \/ abort \/ SomePanic)

\* C1: a search on a position with legal moves has been started and no
\* worker is there to take its jobs
C1_Stalled ==
    /\ thinking
    /\ ~abort
    /\ fe = "idle"
    /\ jobs # << >>
    /\ \A w \in Workers : wpc[w] = "waiting"

\* C2: when abort() is called while a search is in progress, the workers go
\* on popping and finishing the jobs, the aggregator receives all the
\* results, and the search ends with a result stored and thinking false.
C2_AbortedSearchEnds ==
    \A s \in Searches :
        (sid = s /\ thinking /\ abort)
            ~> ((~thinking /\ Len(last) >= s) \/ SomePanic)

\* C2: an aborted search whose jobs nobody takes
C2_AbortedStalled ==
    /\ thinking
    /\ abort
    /\ jobs # << >>
    /\ \A w \in Workers : wpc[w] = "waiting"

\* C3: abort_and_clear returns only after thinking has become false, when
\* every root job of the search has been run and its outcome stored; the
\* slot is empty when it returns, and no outcome of a search started before
\* the return is in the slot afterwards.
C3_AbortAndClear ==
    /\ fe = "taking" =>
        /\ ~thinking
        /\ jobs = << >>
        /\ chan = << >>
        /\ \A w \in Workers : wpc[w] # "run"
        /\ Len(last) = sid
    /\ result # NoResult => result.sid > cleared

\* C3: abort_and_clear has returned after a search whose aggregator has
\* not yet notified the main signal, and the slot is empty
C3_Witness ==
    /\ cleared = 1
    /\ abort
    /\ 1 \in pending
    /\ last[1].kind = "Ok"
    /\ result = NoResult
    /\ fe = "idle"

\* C4: when find_best_move is called on a position whose legal_moves is
\* Checkmate or Stalemate, no job is queued, the error is stored, thinking
\* is false, and the main signal has been notified when the call returns.
C4_ErrorNotified ==
    /\ result.kind = "Err" =>
        /\ result.err \in {"Checkmate", "Stalemate"}
        /\ jobs = << >>
        /\ ~thinking
    /\ \A s \in 1..Len(last) : last[s].kind = "Err" => s \in notified

\* C4: the error of a checkmated position is in the slot
C4_Witness ==
    /\ result.kind = "Err"
    /\ result.err = "Checkmate"
    /\ fe = "idle"

\* the move and value of an outcome, as a job result
Pair(r) == [mv |-> r.mv, val |-> r.val]

\* the aggregator is about to receive a result equal to its best score
TieAhead ==
    /\ agg.pc = "recv"
    /\ agg.nrecv < agg.nmoves
    /\ chan # << >>
    /\ agg.best_move # NoMove
    /\ Head(chan).val = agg.best_score

\* C5: the pair the aggregator stores is the result of one of the n root
\* jobs of the search, its score is the maximum of the n job scores, and
\* its move is a legal move of the searched position; a result that ties
\* with the best one so far may replace it and may not.
C5_BestOfJobs ==
    /\ (sid > 0 /\ Len(last) = sid /\ last[sid].kind = "Ok") =>
        /\ Len(received) = Len(fb.moves)
        /\ \E i \in DOMAIN received : received[i] = Pair(last[sid])
        /\ \A i \in DOMAIN received : received[i].val <= last[sid].val
        /\ \E j \in DOMAIN fb.moves : fb.moves[j] = last[sid].mv
        /\ make_move(fb.board, last[sid].mv).ok
    /\ TieAhead =>
        /\ ENABLED (Receive /\ agg'.best_move = Head(chan).mv)
        /\ ENABLED (Receive /\ agg'.best_move = agg.best_move)

\* C5: two jobs tied for the maximum and the one received second was stored
C5_Witness ==
    /\ sid > 0
    /\ Len(last) = sid
    /\ last[sid].kind = "Ok"
    /\ Len(received) = 2
    /\ received[1].val = received[2].val
    /\ received[1].mv # received[2].mv
    /\ last[sid].mv = received[2].mv

\* C6: a front-end that saw no result and blocks on the main signal is
\* woken once the outcome is posted: whenever it is blocked with an outcome
\* in the slot, the aggregator's notification for that outcome is still to
\* come.
C6_NotifyNotLost ==
    (fe = "waiting" /\ result # NoResult) =>
        (agg.pc = "stored" \/ result.sid \in pending)

\* C6: the front-end is blocked, the outcome is in the slot and the
\* aggregator is gone
C6_Witness ==
    /\ fe = "waiting"
    /\ result.kind = "Ok"
    /\ agg = NoAggregator
    /\ pending = {}
    /\ ~thinking

\* C7: for every depth passed to find_best_move the table has at least
\* depth + 1 levels, so that every level the searcher indexes is inside the
\* table: no worker fails on an access to it.
C7_NoCacheAccessFails == \A w \in Workers : wpc[w] # "panicked"

\* C7: a search is running whose table has fewer than depth + 1 levels
C7_Witness ==
    /\ thinking
    /\ \E w \in Workers : wpc[w] = "run" /\ Len(table) < wjob[w].depth + 1


(***************************************************************************)
(* The board walk: a position is set up, moves are made on it, and the     *)
(* pure operations of Board are applied to the positions reached.          *)
(***************************************************************************)
\* 7K/kP6/8/8/8/8/p7/8 w: a pawn about to promote next to the black king
PromotionBoard ==
    Position(<< <<h8, "King", White>>, <<from_algebra(0, 7), "King", Black>>,
                <<from_algebra(1, 7), "Pawn", White>>,
                <<from_algebra(0, 2), "Pawn", Black>> >>, White)

\* 8/8/8/pP6/8/8/8/8 w - a6: the black pawn has just made a double step
EnPassantBoard ==
    [Position(<< <<from_algebra(0, 5), "Pawn", Black>>,
                 <<from_algebra(1, 5), "Pawn", White>> >>, White)
        EXCEPT !.en_passant_target = from_algebra(0, 6)]

\* k7/8/8/8/8/8/8/4K2R w K: White may castle kingside
CastleBoard ==
    [Position(<< <<a8, "King", Black>>, <<e1, "King", White>>,
                 <<h1, "Rook", White>> >>, White)
        EXCEPT !.castle_rights = [i \in 0..3 |-> i = 0]]

\* kn6/p7/PP6/8/8/8/8/K7 w: b6-b7 is checkmate; White has four other moves
MateInOneBoard ==
    Position(<< <<a8, "King", Black>>, <<b8, "Knight", Black>>,
                <<from_algebra(0, 7), "Pawn", Black>>,
                <<from_algebra(0, 6), "Pawn", White>>,
                <<from_algebra(1, 6), "Pawn", White>>,
                <<a1, "King", White>> >>, White)

\* 4k3/8/3P4/6Q1/8/8/8/K7 w: the position of the test checkmate, where
\* Qg5-e7 is the one checkmate
QueenMateBoard ==
    Position(<< <<e8, "King", Black>>, <<from_algebra(3, 6), "Pawn", White>>,
                <<from_algebra(6, 5), "Queen", White>>,
                <<a1, "King", White>> >>, White)

BoardInputs ==
    {PromotionBoard, EnPassantBoard, CastleBoard, TieBoard, MateBoard, StaleBoard,
     MateInOneBoard, QueenMateBoard}

NoOutput == [op |-> "none"]

BoardInit ==
    /\ cur \in BoardInputs
    /\ ply = 0
    /\ out = NoOutput
    /\ PoolInit

\* an operation is applied to a position once, when the walk arrives there
Fresh == out.op = "none" \/ (out.op = "make_move" /\ out.ok)

\* make_move with a legal move of the side to move
MakeMove ==
    /\ ply < MaxPly
    /\ \E lm \in {legal_moves(cur)} :
        \E i \in 1..Len(lm.moves) :
            \E r \in {make_move(cur, lm.moves[i])} :
                /\ cur' = r.board
                /\ out' = [op |-> "make_move", mv |-> lm.moves[i], ok |-> r.ok]
    /\ ply' = ply + 1
    /\ UNCHANGED poolVars

\* legal_moves, with the pseudo-legal moves it was computed from
LegalMoves ==
    /\ Fresh
    /\ ~moves_panics(cur)
    /\ out' = [op |-> "legal_moves", pseudo |-> moves(cur), res |-> legal_moves(cur)]
    /\ UNCHANGED << cur, ply >>
    /\ UNCHANGED poolVars

\* alpha_beta(max_depth, None, None)
AlphaBeta ==
    /\ Fresh
    /\ \E d \in 0..MaxSearchDepth :
        \E r \in {alpha_beta(cur, d, Context(FALSE, Never), TableNew(0))} :
            out' = [op |-> "alpha_beta", depth |-> d, val |-> r.val,
                    panic |-> r.panic]
    /\ UNCHANGED << cur, ply >>
    /\ UNCHANGED poolVars

\* The root jobs of find_best_move(cur, d) as the workers run them: the
\* jobs are pushed in the order of legal_moves, next is the height of the
\* stack, held are the jobs popped and not yet searched, scores the values
\* returned, alone the values the same jobs return without a table.
SharedSearch ==
    /\ Fresh
    /\ ply = 0
    /\ \E lm \in {legal_moves(cur)}, d \in 1..MaxSearchDepth :
           /\ lm.err = "None"
           /\ Len(lm.moves) <= MaxJobs
           /\ out' = [op |-> "shared", depth |-> d, moves |-> lm.moves,
                      next |-> Len(lm.moves), held |-> {},
                      tt |-> TableNew(TableLevels),
                      scores |-> [j \in {} |-> 0],
                      alone |-> [j \in 1..Len(lm.moves) |->
                                    alpha_beta(make_move(cur, lm.moves[j]).board,
                                               d, Context(FALSE, Never),
                                               TableNew(0)).val]]
    /\ UNCHANGED << cur, ply >>
    /\ UNCHANGED poolVars

\* a worker pops the top job
SharedPop ==
    /\ out.op = "shared"
    /\ out.next > 0
    /\ Cardinality(out.held) < NWorkers
    /\ out' = [out EXCEPT !.next = @ - 1, !.held = @ \cup {out.next}]
    /\ UNCHANGED << cur, ply >>
    /\ UNCHANGED poolVars

\* a worker searches the job it holds, with the table of the search
SharedRun ==
    /\ out.op = "shared"
    /\ \E j \in out.held :
        \E r \in {alpha_beta(make_move(cur, out.moves[j]).board, out.depth,
                              Context(TRUE, Never), out.tt)} :
            out' = [out EXCEPT
                       !.held = @ \ {j},
                       !.tt = r.tt,
                       !.scores = [k \in DOMAIN @ \cup {j} |->
                                      IF k = j THEN r.val ELSE @[k]]]
    /\ UNCHANGED << cur, ply >>
    /\ UNCHANGED poolVars

\* best_move(max_depth)
BestMove ==
    /\ Fresh
    /\ \E d \in 0..MaxDepth :
        \E r \in best_move(cur, d) :
            out' = [op |-> "best_move", depth |-> d, res |-> r]
    /\ UNCHANGED << cur, ply >>
    /\ UNCHANGED poolVars

BoardNext ==
    \/ BestMove
    \/ MakeMove
    \/ LegalMoves
    \/ AlphaBeta
    \/ SharedSearch
    \/ SharedPop
    \/ SharedRun

BoardSpec == BoardInit /\ [][BoardNext]_vars

(***************************************************************************)
(* Properties of the search and of the move generator.                     *)
(***************************************************************************)
SetMax(S) == CHOOSE x \in S : \A y \in S : y <= x

SetMin(S) == CHOOSE x \in S : \A y \in S : x <= y

\* The depth-limited minimax value of b for my_color: the static score at
\* max_depth, ISizeMin + 1 for a checkmated maximizer, ISizeMax - 1 for a
\* checkmated minimizer, 0 for a stalemate, and otherwise the greatest or
\* the least value of the positions after the legal moves.
RECURSIVE minimax(_, _, _, _)
minimax(b, my_color, depth, max_depth) ==
    IF depth = max_depth THEN score(b, my_color)
    ELSE LET lm == legal_moves(b)
             vals == {minimax(make_move(b, lm.moves[i]).board, my_color,
                              depth + 1, max_depth) : i \in 1..Len(lm.moves)}
         IN  CASE lm.err = "Checkmate" ->
                    IF b.color_to_move = my_color
                    THEN ISizeMin + 1 ELSE ISizeMax - 1
               [] lm.err = "Stalemate" -> 0
               [] OTHER ->
                    IF b.color_to_move = my_color
                    THEN SetMax(vals) ELSE SetMin(vals)

\* The search of the position after the i-th legal move of b, under the
\* window the root has when it comes to that move, returns another value
\* than the minimax value of that position: moves were skipped in it.
CutAt(b, max_depth, i) ==
    LET ms == legal_moves(b).moves
        my_color == other(b.color_to_move)
        beta == SetMin({minimax(make_move(b, ms[k]).board, my_color, 1, max_depth) :
                           k \in 1..(i - 1)})
    IN  alpha_beta_rec(make_move(b, ms[i]).board, my_color, 1, max_depth,
                       ISizeMin, beta, Context(FALSE, Never),
                       [tt |-> TableNew(0), n |-> 0]).val
            # minimax(make_move(b, ms[i]).board, my_color, 1, max_depth)

\* C8: with no cache and no abort alpha_beta(max_depth) returns the
\* depth-limited minimax value of the position for the side that just
\* moved, with score(my_color) at max_depth, ISizeMin + 1 and ISizeMax - 1
\* for the checkmates and 0 for a stalemate: pruning does not change the
\* value at the root.
C8_AlphaBetaIsMinimax ==
    (out.op = "alpha_beta" /\ ~out.panic) =>
        out.val = minimax(cur, other(cur.color_to_move), 0, out.depth)

\* C8: a search of the greatest depth in which the window cut the search
\* of a position short
C8_Witness ==
    /\ out.op = "alpha_beta"
    /\ ~out.panic
    /\ out.depth = MaxSearchDepth
    /\ out.depth > 1
    /\ \E i \in 2..Len(legal_moves(cur).moves) : CutAt(cur, out.depth, i)

\* C9: the value the cache holds for a position at a level does not depend
\* on the window it was computed under nor on the worker that computed it:
\* the root jobs of a search that shares the cache return the scores they
\* return without a cache.
C9_SharedEqualsAlone ==
    out.op = "shared" =>
        \A j \in DOMAIN out.scores : out.scores[j] = out.alone[j]

\* C9: every root job of a search with a shared cache has been run
C9_Witness ==
    /\ out.op = "shared"
    /\ out.next = 0
    /\ out.held = {}
    /\ Len(out.moves) > NWorkers

\* number of times m occurs in the sequence ms
Occurrences(m, ms) == Cardinality({i \in DOMAIN ms : ms[i] = m})

\* ms is in the order of the moves
IsSorted(ms) ==
    \A i, j \in DOMAIN ms : i < j => ~MoveLess(ms[j], ms[i])

\* C10: when at least one pseudo-legal move passes make_move, legal_moves
\* returns, sorted, the pseudo-legal moves that pass make_move, each as
\* often as the generator gave it, and no other move.
C10_LegalMovesIsSortedFilter ==
    (out.op = "legal_moves"
        /\ \E i \in DOMAIN out.pseudo : make_move(cur, out.pseudo[i]).ok) =>
        /\ out.res.err = "None"
        /\ IsSorted(out.res.moves)
        /\ \A i \in DOMAIN out.pseudo :
            Occurrences(out.pseudo[i], out.res.moves)
                = IF make_move(cur, out.pseudo[i]).ok
                  THEN Occurrences(out.pseudo[i], out.pseudo) ELSE 0
        /\ \A j \in DOMAIN out.res.moves :
            \E i \in DOMAIN out.pseudo : out.pseudo[i] = out.res.moves[j]

\* C10: legal_moves dropped a pseudo-legal move and put the others in an
\* order that is not the generator's
C10_Witness ==
    /\ out.op = "legal_moves"
    /\ out.res.err = "None"
    /\ Len(out.res.moves) > 1
    /\ Len(out.res.moves) < Len(out.pseudo)
    /\ out.res.moves # SelectSeq(out.pseudo, LAMBDA m : make_move(cur, m).ok)

(***************************************************************************)
(* moves.rs: the move the front end builds from the text of a user move.   *)
(* The text is its two squares and its suffix; the squares are given as    *)
(* squares, and the piece on the first is known to be there.               *)
(***************************************************************************)
XboardCastle(p, from, to) ==
    IF p.kind # "King" THEN "None"
    ELSE IF (from = e1 /\ to = g1) \/ (from = e8 /\ to = g8) THEN "Kingside"
    ELSE IF (from = e1 /\ to = c1) \/ (from = e8 /\ to = c8) THEN "Queenside"
    ELSE "None"

from_xboard_format(b, from, to, extras) ==
    LET p == piece(b, from)
        prom == CASE extras = "q" -> "Queen"
                  [] extras = "r" -> "Rook"
                  [] extras = "n" -> "Knight"
                  [] extras = "b" -> "Bishop"
                  [] OTHER -> "None"
    IN  Move(p.kind, from, to, occupied(b, to), extras = "e.p.", prom,
             XboardCastle(p, from, to))

\* the suffixes of the user moves tried
XboardSuffixes == {"", "e.p."}

\* the squares at most XboardReach ranks and files away
Near(from, to) ==
    /\ rank(from) - rank(to) \in -XboardReach..XboardReach
    /\ file(from) - file(to) \in -XboardReach..XboardReach

\* the squares a king goes to when it castles
CastleSquares(from) ==
    IF from = e1 THEN {g1, c1} ELSE IF from = e8 THEN {g8, c8} ELSE {}

\* the user moves tried on b: a piece of either colour to a square near it
\* or, from a king's home square, to the squares of the castles
XboardMoves(b) ==
    UNION {{from_xboard_format(b, from, to, extras) :
                to \in {t \in Squares : Near(from, t)} \cup CastleSquares(from),
                extras \in XboardSuffixes} :
              from \in {f \in Squares : occupied(b, f)}}

\* the elements of a sequence
Range(seq) == {seq[i] : i \in DOMAIN seq}

\* the moves of the generator, as a set
GeneratedMoves(b) ==
    IF moves_panics(b) THEN {} ELSE Range(moves(b))

(***************************************************************************)
(* The move walk: make_move is called with the moves above on a position   *)
(* and on the positions it returns; legal_moves and color_threatens are    *)
(* asked about the positions reached.                                      *)
(***************************************************************************)
\* 8/1p6/8/pP6/8/8/8/8 w - a6: the black pawn on a5 has just made a double
\* step; the black pawn on b7 has the target on its own diagonal
TwoPawnsBoard ==
    [EnPassantBoard EXCEPT !.board[from_algebra(1, 7)] = Piece("Pawn", Black)]

\* 8/8/8/nP6/8/8/8/8 w - a6: a knight stands behind the target
KnightBehindBoard ==
    [EnPassantBoard EXCEPT !.board[from_algebra(0, 5)] = Piece("Knight", Black)]

\* r3k2r/8/8/8/8/8/8/R3K2R w KQkq: every castle is available
RookBoard ==
    [Position(<< <<a8, "Rook", Black>>, <<e8, "King", Black>>,
                 <<h8, "Rook", Black>>, <<a1, "Rook", White>>,
                 <<e1, "King", White>>, <<h1, "Rook", White>> >>, White)
        EXCEPT !.castle_rights = [i \in 0..3 |-> TRUE]]

\* 8/8/8/8/8/8/8/RN2K2R w KQ: the queenside castle is blocked
BlockedBoard ==
    [Position(<< <<a1, "Rook", White>>, <<b1, "Knight", White>>,
                 <<e1, "King", White>>, <<h1, "Rook", White>> >>, White)
        EXCEPT !.castle_rights = [i \in 0..3 |-> i < 2]]

\* 8/8/8/8/8/5q2/8/4K2R w KQ: the queen on f3 threatens f1 and d1
ThroughCheckBoard ==
    [Position(<< <<from_algebra(5, 3), "Queen", Black>>,
                 <<e1, "King", White>>, <<h1, "Rook", White>> >>, White)
        EXCEPT !.castle_rights = [i \in 0..3 |-> i < 2]]

\* 7k/8/8/8/8/8/8/8 w: White has no piece
LoneBoard == Position(<< <<h8, "King", Black>> >>, White)

\* PP6/PP6/PP6/PP6/PP6/PP6/KP6/KPn5 w: two white kings walled in by pawns
\* that cannot move, one of the kings attacked by the knight
TwoKingsBoard ==
    [Position(<< <<a1, "King", White>>, <<from_algebra(0, 2), "King", White>>,
                 <<c1, "Knight", Black>> >>, White)
        EXCEPT !.board = [s \in Squares |->
                            IF (file(s) = 1 \/ (file(s) = 0 /\ rank(s) < 6))
                            THEN Piece("Pawn", White) ELSE @[s]]]

\* 8/8/8/8/8/8/8/7N w - - 99 120: late in a game, the clocks have two and
\* three digits
ClockBoard ==
    [Position(<< <<h1, "Knight", White>> >>, White)
        EXCEPT !.halfmove_clock = 99, !.move_number = 120]

MoveInputs ==
    {EnPassantBoard, TwoPawnsBoard, KnightBehindBoard, PromotionBoard,
     RookBoard, BlockedBoard, ThroughCheckBoard, CastleBoard,
     MateBoard, StaleBoard, LoneBoard, TwoKingsBoard, ClockBoard}

\* texts from_fen is called with: the positions of the test fen_correct,
\* the initial position, one with a target and long clocks, texts that
\* to_fen does not write, and texts that are not read to the end
FenInputs ==
    {"1K6/2P5/1p3P2/1k2P3/1qnP1B2/3Q4/8/8 b - - 0 1",
     "4k2r/8/5Q2/8/8/8/8/8 b kq - 0 1",
     "r3k2r/8/8/8/8/8/8/8 b kq - 0 1",
     "rnbqkbnr/pppppppp/8/8/8/8/PPPPPPPP/RNBQKBNR w KQkq - 0 1",
     "8/8/8/pP6/8/8/8/8 w Kq a6 12 105",
     "8/8/8/8/8/8/8/44 W qK-Q - +0 01",
     "8/8/8/8/8/8/8/8 w - a6x 0 1",
     "8/8/8/8/8/8/8/8",
     "8/8/8/8/8/8/8/8 w - a 0 1",
     "9/8/8/8/8/8/8/8 w - - 0 1",
     "8/8/8/8/8/8/8/8/p w - - 0 1",
     "8/8/8/8/8/8/8/8 w - - x 1",
     "8/8/8/8/8/8/8/8 w - - 0"}

MoveInit ==
    /\ cur \in MoveInputs
    /\ ply = 0
    /\ out = NoOutput
    /\ PoolInit

\* make_move(m) on the position of the walk, m a move of the generator, a
\* user move or one of the two castles whatever the generator offers: the
\* board it returns becomes the position; an error or a panic leaves the
\* position as it is
TryMove ==
    /\ Fresh
    /\ ply < MaxPly
    /\ \E gen \in {GeneratedMoves(cur)} :
        \E m \in gen \cup XboardMoves(cur)
                    \cup {CastleMove("Kingside"), CastleMove("Queenside")} :
            \E r \in {make_move(cur, m)} :
                /\ out' = [op |-> "make_move", mv |-> m, ok |-> r.ok,
                           err |-> r.err, before |-> cur,
                           generated |-> m \in gen]
                /\ cur' = IF r.ok THEN r.board ELSE cur
                /\ ply' = IF r.ok THEN ply + 1 ELSE ply
    /\ UNCHANGED poolVars

\* color_threatens(c, s) for every square s
ColorThreatens ==
    /\ Fresh
    /\ \E c \in Colors :
        out' = [op |-> "color_threatens", c |-> c,
                val |-> [s \in Squares |-> color_threatens(cur, c, s)]]
    /\ UNCHANGED << cur, ply >>
    /\ UNCHANGED poolVars

\* to_fen on the position of the walk
ToFen ==
    /\ Fresh
    /\ out' = [op |-> "to_fen", fen |-> to_fen(cur)]
    /\ UNCHANGED << cur, ply >>
    /\ UNCHANGED poolVars

\* from_fen on a text
FromFen ==
    /\ out.op = "none"
    /\ \E s \in FenInputs :
        out' = [op |-> "from_fen", fen |-> s, res |-> from_fen(s)]
    /\ UNCHANGED << cur, ply >>
    /\ UNCHANGED poolVars

MoveNext ==
    \/ TryMove
    \/ LegalMoves
    \/ ColorThreatens
    \/ ToFen
    \/ FromFen

MoveSpec == MoveInit /\ [][MoveNext]_vars

(***************************************************************************)
(* Properties of make_move and legal_moves on the move walk.               *)
(***************************************************************************)
\* the side that made the last move of the walk
Mover == out.before.color_to_move

\* C11: in a board make_move returned, if the side that just moved has
\* exactly one king, the side now to move does not threaten that king.
C11_NotLeftInCheck ==
    (out.op = "make_move" /\ out.ok) =>
        \A k \in Squares :
            (piece(cur, k) = Piece("King", Mover)
             /\ Cardinality({s \in Squares : piece(cur, s) = Piece("King", Mover)}) = 1)
                => ~color_threatens(cur, cur.color_to_move, k)

\* C11: a side with one king, in check, has made a move that make_move
\* accepted
C11_Witness ==
    /\ out.op = "make_move"
    /\ out.ok
    /\ Cardinality({s \in Squares : piece(cur, s) = Piece("King", Mover)}) = 1
    /\ \E k \in Squares :
        /\ piece(out.before, k) = Piece("King", Mover)
        /\ color_threatens(out.before, other(Mover), k)

\* C12: make_move with a move of the position's generator returns a board
\* or one of the errors IllegalMove and BadBoardState, never a panic, and
\* when it returns an error the position and the plies made are as before.
C12_GeneratedMoveNeverPanics ==
    (out.op = "make_move" /\ out.generated) =>
        /\ out.err \in {"None", "IllegalMove", "BadBoardState"}
        /\ out.ok <=> out.err = "None"
        /\ ~out.ok => (cur = out.before /\ ply < MaxPly)
        /\ out.ok => (cur = make_move(out.before, out.mv).board /\ ply > 0)

\* C12: a move of the generator that make_move refused
C12_Witness ==
    /\ out.op = "make_move"
    /\ out.generated
    /\ ~out.ok
    /\ out.err = "IllegalMove"
    /\ cur = out.before

\* C13: when no pseudo-legal move passes make_move, legal_moves fails with
\* Checkmate if the side to move has exactly one king and the opponent
\* threatens it, and with Stalemate otherwise; it never returns an empty
\* list.
C13_MateOrStalemate ==
    out.op = "legal_moves" =>
        LET c == cur.color_to_move
            kings == {s \in Squares : piece(cur, s) = Piece("King", c)}
            mated == /\ Cardinality(kings) = 1
                     /\ \E k \in kings : color_threatens(cur, other(c), k)
        IN  /\ ~(out.res.err = "None" /\ out.res.moves = <<>>)
            /\ (\A i \in DOMAIN out.pseudo : ~make_move(cur, out.pseudo[i]).ok) =>
                    /\ mated => out.res.err = "Checkmate"
                    /\ ~mated => out.res.err = "Stalemate"

\* C13: a side with two kings, one of them threatened, and no move
C13_Witness ==
    /\ out.op = "legal_moves"
    /\ out.res.err = "Stalemate"
    /\ Cardinality({s \in Squares :
                       piece(cur, s) = Piece("King", cur.color_to_move)}) > 1
    /\ \E k \in Squares :
        /\ piece(cur, k) = Piece("King", cur.color_to_move)
        /\ color_threatens(cur, other(cur.color_to_move), k)

\* the home square of colour c's king and the corner of its rook on a side
KingHome(c) == from_algebra(4, IF c = White THEN 1 ELSE 8)

RookCorner(c, side) ==
    from_algebra(IF side = "Kingside" THEN 7 ELSE 0, IF c = White THEN 1 ELSE 8)

HoldsRight(b, c, side) ==
    IF side = "Kingside" THEN castle_kingside_rights(b, c)
    ELSE castle_queenside_rights(b, c)

\* every castling right held on b has its king and its rook at home
RightsImplyHome(b) ==
    \A c \in Colors, side \in {"Kingside", "Queenside"} :
        HoldsRight(b, c, side) =>
            /\ piece(b, KingHome(c)) = Piece("King", c)
            /\ piece(b, RookCorner(c, side)) = Piece("Rook", c)

\* C14: a successful make_move on a board where every castling right held
\* has its king on its home square and its rook on its corner returns a
\* board where that is so, also when the move captures a rook on its
\* corner.
C14_RightsImplyHome ==
    (out.op = "make_move" /\ out.ok /\ RightsImplyHome(out.before)) =>
        RightsImplyHome(cur)

\* C14: a rook has been captured on its corner while its side held the
\* castling right of that corner
C14_Witness ==
    /\ out.op = "make_move"
    /\ out.ok
    /\ RightsImplyHome(out.before)
    /\ \E side \in {"Kingside", "Queenside"} :
        /\ HoldsRight(out.before, cur.color_to_move, side)
        /\ out.mv.to = RookCorner(cur.color_to_move, side)
        /\ out.mv.castle = "None"
        /\ piece(cur, out.mv.to).color = Mover

\* the en-passant target of b, if there is one, is on the rank of the
\* double step of the side that just moved; whiteRank is that rank when
\* White just moved and the other of 3 and 6 when Black did
TargetOnRank(b, whiteRank) ==
    b.en_passant_target # NoPos =>
        rank_is(b.en_passant_target,
                IF b.color_to_move = Black THEN whiteRank ELSE 9 - whiteRank)

\* C15: a successful make_move on a board whose en-passant target, if
\* present, is on rank 3 when Black just moved or on rank 6 when White
\* just moved returns such a board; the same with the two ranks the other
\* way round, as the double steps of chess leave them.
C15_TargetOnRankOfMover ==
    (out.op = "make_move" /\ out.ok) =>
        \A whiteRank \in {3, 6} :
            TargetOnRank(out.before, whiteRank) => TargetOnRank(cur, whiteRank)

\* C15: a move that is not an en-passant capture was made on a board with
\* an en-passant target
C15_Witness ==
    /\ out.op = "make_move"
    /\ out.ok
    /\ out.before.en_passant_target # NoPos
    /\ ~out.mv.en_passant
    /\ cur.en_passant_target = out.before.en_passant_target

\* the files of the squares a castle of a side is about: those between
\* king and rook, those the king stands on, crosses and lands on, and
\* where king and rook land
BetweenFiles(side) == IF side = "Kingside" THEN {5, 6} ELSE {1, 2, 3}

KingPathFiles(side) == IF side = "Kingside" THEN {4, 5, 6} ELSE {2, 3, 4}

KingLandsFile(side) == IF side = "Kingside" THEN 6 ELSE 2

RookLandsFile(side) == IF side = "Kingside" THEN 5 ELSE 3

HomeRank(c) == IF c = White THEN 1 ELSE 8

\* what a castle of colour c on a side needs of the board b
CastleAllowed(b, c, side) ==
    /\ HoldsRight(b, c, side)
    /\ \A f \in BetweenFiles(side) : ~occupied(b, from_algebra(f, HomeRank(c)))
    /\ \A f \in KingPathFiles(side) :
        ~color_threatens(b, other(c), from_algebra(f, HomeRank(c)))
    /\ piece(b, KingHome(c)) = Piece("King", c)
    /\ piece(b, RookCorner(c, side)) = Piece("Rook", c)

\* the board after the castle: king and rook relocated, nothing else moved
CastledBoard(b, c, side) ==
    [s \in Squares |->
        IF s = from_algebra(KingLandsFile(side), HomeRank(c)) THEN Piece("King", c)
        ELSE IF s = from_algebra(RookLandsFile(side), HomeRank(c)) THEN Piece("Rook", c)
        ELSE IF s \in {KingHome(c), RookCorner(c, side)} THEN NoPiece
        ELSE b.board[s]]

\* C16: make_move of a castle succeeds only if the mover holds the right,
\* the squares between king and rook are empty, the king's square, the
\* square it crosses and the square it lands on are not threatened, and
\* king and rook are at home; otherwise it fails with IllegalMove.  On
\* success king and rook are relocated and the mover has no right left.
C16_CastleNeedsRightPathAndHome ==
    (out.op = "make_move" /\ out.mv.castle # "None") =>
        /\ out.ok => CastleAllowed(out.before, Mover, out.mv.castle)
        /\ ~CastleAllowed(out.before, Mover, out.mv.castle) =>
                (~out.ok /\ out.err = "IllegalMove")
        /\ out.ok =>
            /\ cur.board = CastledBoard(out.before, Mover, out.mv.castle)
            /\ ~HoldsRight(cur, Mover, "Kingside")
            /\ ~HoldsRight(cur, Mover, "Queenside")
            /\ \A side \in {"Kingside", "Queenside"} :
                HoldsRight(cur, other(Mover), side)
                    = HoldsRight(out.before, other(Mover), side)

\* C16: Black has castled while White held its kingside right
C16_Witness ==
    /\ out.op = "make_move"
    /\ out.mv.castle # "None"
    /\ out.ok
    /\ Mover = Black
    /\ HoldsRight(cur, White, "Kingside")

\* the square behind the en-passant target to, seen from the mover c
Behind(c, to) == IF c = White THEN to + 8 ELSE to - 8

\* C17: make_move of an en-passant move fails with IllegalMove unless the
\* board has an en-passant target and it is the move's destination; on
\* success the capturing pawn stands on the target, the pawn of the other
\* side one rank behind the target is removed, no other square changes and
\* the target is cleared.
C17_EnPassantTakesThePawnBehind ==
    (out.op = "make_move" /\ out.mv.castle = "None" /\ out.mv.en_passant) =>
        /\ out.before.en_passant_target # out.mv.to =>
                (~out.ok /\ out.err = "IllegalMove")
        /\ out.ok =>
            /\ piece(out.before, out.mv.from) = Piece("Pawn", Mover)
            /\ piece(out.before, Behind(Mover, out.mv.to))
                    = Piece("Pawn", other(Mover))
            /\ cur.board = [out.before.board EXCEPT
                               ![out.mv.from] = NoPiece,
                               ![Behind(Mover, out.mv.to)] = NoPiece,
                               ![out.mv.to] = Piece("Pawn", Mover)]
            /\ cur.en_passant_target = NoPos

\* C17: an en-passant move of the generator was made and took a piece that
\* is not a pawn
C17_Witness ==
    /\ out.op = "make_move"
    /\ out.mv.en_passant
    /\ out.generated
    /\ out.ok
    /\ piece(out.before, Behind(Mover, out.mv.to)).kind # "Pawn"

\* the pieces of colour c on b
Count(b, c) == Cardinality({s \in Squares : piece(b, s).color = c})

Abs(x) == IF x < 0 THEN -x ELSE x

Sign(x) == IF x < 0 THEN -1 ELSE IF x > 0 THEN 1 ELSE 0

\* the squares strictly between p and s on a rank, a file or a diagonal
Between(p, s) ==
    LET dr == rank(s) - rank(p)
        df == file(s) - file(p)
        n == IF Abs(dr) > Abs(df) THEN Abs(dr) ELSE Abs(df)
    IN  {PosNew(rank(p) + k * Sign(dr), file(p) + k * Sign(df)) : k \in 1..(n - 1)}

\* the piece on p has s as a capture destination under the occupancy of b
Captures(b, p, s) ==
    LET dr == rank(s) - rank(p)
        df == file(s) - file(p)
        k == piece(b, p).kind
        straight == (dr = 0) # (df = 0)
        diagonal == Abs(dr) = Abs(df) /\ dr # 0
        clear == \A x \in Between(p, s) : ~occupied(b, x)
    IN  CASE k = "Pawn" ->
                Abs(df) = 1 /\ dr = (IF piece(b, p).color = White THEN -1 ELSE 1)
          [] k = "Knight" -> {Abs(dr), Abs(df)} = {1, 2}
          [] k = "King" -> Abs(dr) <= 1 /\ Abs(df) <= 1 /\ p # s
          [] k = "Rook" -> straight /\ clear
          [] k = "Bishop" -> diagonal /\ clear
          [] k = "Queen" -> (straight \/ diagonal) /\ clear
          [] OTHER -> FALSE

\* some piece of colour c has s as a capture destination
Attacks(b, c, s) ==
    \E p \in Squares : piece(b, p).color = c /\ Captures(b, p, s)

\* a pawn of colour c has the en-passant target on a forward diagonal and s
\* is the square behind the target
BehindTarget(b, c, s) ==
    /\ b.en_passant_target # NoPos
    /\ s = Behind(c, b.en_passant_target)
    /\ \E p \in Squares :
        /\ piece(b, p) = Piece("Pawn", c)
        /\ Captures(b, p, b.en_passant_target)

C20_BehindTargetNeedsThePawn ==
    out.op = "color_threatens" =>
        \A s \in Squares :
            /\ (out.val[s] /\ ~Attacks(cur, out.c, s)) =>
                    /\ BehindTarget(cur, out.c, s)
                    /\ piece(cur, s) = Piece("Pawn", other(out.c))
            /\ (BehindTarget(cur, out.c, s)
                    /\ piece(cur, s) = Piece("Pawn", other(out.c)))
                => out.val[s]

\* C20: the square behind the target is reported as threatened and no pawn
\* of the other colour stands on it
C20_Witness ==
    /\ out.op = "color_threatens"
    /\ \E s \in Squares :
        /\ out.val[s]
        /\ BehindTarget(cur, out.c, s)
        /\ ~Attacks(cur, out.c, s)
        /\ piece(cur, s) # Piece("Pawn", other(out.c))


(***************************************************************************)
(* Properties of to_fen and from_fen.                                      *)
(***************************************************************************)
\* the texts of FenInputs that to_fen writes
CanonicalFens ==
    {"1K6/2P5/1p3P2/1k2P3/1qnP1B2/3Q4/8/8 b - - 0 1",
     "4k2r/8/5Q2/8/8/8/8/8 b kq - 0 1",
     "r3k2r/8/8/8/8/8/8/8 b kq - 0 1",
     "rnbqkbnr/pppppppp/8/8/8/8/PPPPPPPP/RNBQKBNR w KQkq - 0 1",
     "8/8/8/pP6/8/8/8/8 w Kq a6 12 105"}

\* C21: from_fen(to_fen(P)) is P in every field, to_fen(from_fen(s)) is s
\* for a canonical text s, and a position that has the text of another
\* position is that position.
C21_FenRoundTrip ==
    /\ out.op = "to_fen" =>
        /\ from_fen(out.fen) = Ok(cur)
        /\ \A b \in MoveInputs : to_fen(b) = out.fen => b = cur
    /\ (out.op = "from_fen" /\ out.fen \in CanonicalFens) =>
        /\ out.res.ok
        /\ to_fen(out.res.board) = out.fen

\* C21: the text of a position reached by a move, with a clock of three
\* digits, was written and is read back as a board
C21_Witness ==
    /\ out.op = "to_fen"
    /\ ply > 0
    /\ cur.halfmove_clock > 99
    /\ from_fen(out.fen).ok

(***************************************************************************)
(* Properties of the choice of a move.                                     *)
(***************************************************************************)
\* the legal moves of b after which the other side is checkmated
MatingMoves(b) ==
    {m \in Range(legal_moves(b).moves) :
        legal_moves(make_move(b, m).board).err = "Checkmate"}

\* the root jobs of the search have all been run
AllJobsRun == out.op = "shared" /\ out.next = 0 /\ out.held = {}

\* the jobs find_best_move may choose: those of the greatest score
BestJobs == {j \in DOMAIN out.scores : \A k \in DOMAIN out.scores :
                                          out.scores[k] <= out.scores[j]}

\* C22: with depth 1, when some legal move of the position is checkmate,
\* best_move returns a checkmating move with the score ISizeMax - 1, and
\* the root jobs of find_best_move that have the greatest score are those
\* of the checkmating moves, with the score ISizeMax - 1.
C22_MateInOneChosen ==
    /\ (out.op = "best_move" /\ out.depth = 1 /\ MatingMoves(cur) # {}) =>
        /\ out.res.ok
        /\ out.res.mv \in MatingMoves(cur)
        /\ out.res.val = ISizeMax - 1
    /\ (AllJobsRun /\ out.depth = 1 /\ MatingMoves(cur) # {}) =>
        \A j \in BestJobs :
            /\ out.moves[j] \in MatingMoves(cur)
            /\ out.scores[j] = ISizeMax - 1

\* C22: best_move(1) returned the checkmate of a position that has other
\* legal moves as well
C22_Witness ==
    /\ out.op = "best_move"
    /\ out.depth = 1
    /\ out.res.ok
    /\ out.res.mv \in MatingMoves(cur)
    /\ Len(legal_moves(cur).moves) > Cardinality(MatingMoves(cur))

(***************************************************************************)
(* Properties of the job queue and of the abort flag.                      *)
(***************************************************************************)
\* C23: every job added by add_job is eventually returned by next_job to
\* some worker: with fair scheduling a queue that holds a job is emptied,
\* and no worker is left waiting on the condition variable while it holds
\* one.  Runs in which a thread panics are left aside (C7).
C23_JobEventuallyTaken ==
    (jobs # << >>) ~> (jobs = << >> \/ SomePanic)

\* C23: the only job of a search is in the queue, add_job has returned, and
\* every worker is waiting on the condition variable
C23_Witness ==
    /\ Len(jobs) = 1
    /\ Len(fb.moves) = 1
    /\ fb.i = 0
    /\ agg.pc = "recv"
    /\ pending = {}
    /\ \A w \in Workers : wpc[w] = "waiting"

(***************************************************************************)
(* The job walk: the root jobs of find_best_move(cur, depth) are run one   *)
(* after the other, as one worker runs them, with the table of the search; *)
(* abort() is called before a job or while one is running.                 *)
(***************************************************************************)
AbortInputs == {TieBoard, PawnBoard, MateInOneBoard, PromotionBoard}

JobsInit ==
    /\ cur \in AbortInputs
    /\ ply = 0
    /\ out = NoOutput
    /\ PoolInit

\* find_best_move: the flag is cleared, the table is new, the jobs are
\* pushed in the order of legal_moves
QueueJobs ==
    /\ out.op = "none"
    /\ \E lm \in {legal_moves(cur)}, d \in 1..MaxAbortDepth :
           /\ lm.err = "None"
           /\ out' = [op |-> "jobs", depth |-> d, moves |-> lm.moves,
                      next |-> Len(lm.moves), abort |-> FALSE,
                      tt |-> TableNew(TableLevels), ran |-> FALSE]
    /\ UNCHANGED << cur, ply >>
    /\ UNCHANGED poolVars

\* abort() between two jobs
AbortJobs ==
    /\ out.op = "jobs"
    /\ ~out.abort
    /\ out.next > 0
    /\ out' = [out EXCEPT !.abort = TRUE, !.ran = FALSE]
    /\ UNCHANGED << cur, ply >>
    /\ UNCHANGED poolVars

\* the worker pops the top job and searches it; abort() is called after k
\* reads of the flag by this search, or not during it.  The step records
\* the board searched, k, the table before, the value and the table after.
RunNextJob ==
    /\ out.op = "jobs"
    /\ out.next > 0
    /\ \E k \in IF out.abort THEN {0} ELSE {Never} \cup (1..MaxAbortReads) :
        \E b \in {make_move(cur, out.moves[out.next]).board} :
            \E r \in {alpha_beta(b, out.depth, Context(TRUE, k), out.tt)} :
                out' = [op |-> "jobs", depth |-> out.depth, moves |-> out.moves,
                        next |-> out.next - 1, abort |-> k # Never,
                        tt |-> r.tt, ran |-> TRUE,
                        board |-> b, k |-> k, before |-> out.tt,
                        val |-> r.val, panic |-> r.panic]
    /\ UNCHANGED << cur, ply >>
    /\ UNCHANGED poolVars

JobsNext ==
    \/ QueueJobs
    \/ AbortJobs
    \/ RunNextJob

JobsSpec == JobsInit /\ [][JobsNext]_vars

\* what an entry returns at once: the cached value of the level, or the
\* static score
CachedOrScore(tt, b, my_color, level) ==
    IF TableHas(tt, b, level) THEN TableGet(tt, b, level) ELSE score(b, my_color)

\* the boards after the legal moves of b, in their order
Children(b) ==
    [i \in 1..Len(legal_moves(b).moves) |->
        make_move(b, legal_moves(b).moves[i]).board]

\* the value of an entry on b that is not cut short, when every entry
\* below it returns at once
OneLevel(tt, b, my_color, level) ==
    LET lm == legal_moves(b)
        vals == {CachedOrScore(tt, c, my_color, level + 1) : c \in Range(Children(b))}
    IN  CASE lm.err = "Checkmate" ->
               IF b.color_to_move = my_color THEN ISizeMin + 1 ELSE ISizeMax - 1
          [] lm.err = "Stalemate" -> 0
          [] OTHER -> IF b.color_to_move = my_color THEN SetMax(vals) ELSE SetMin(vals)

\* the table after an entry on b that is not cut short returned val
Written(tt, b, level, val) ==
    IF legal_moves(b).err = "None" THEN TableInsert(tt, b, level, val) ELSE tt

\* the value of a root job whose first child is the last entry that read
\* the flag as false
TwoLevels(tt, b, my_color) ==
    SetMin({OneLevel(tt, Children(b)[1], my_color, 1)}
           \cup {CachedOrScore(tt, Children(b)[i], my_color, 1) :
                    i \in 2..Len(Children(b))})

\* C24: once the abort flag is set, every entry of the searcher returns at
\* once the cached value of its level, or score(my_color) when there is
\* none, and writes nothing.  For a root job: started after abort it returns
\* the cached value or the static score of its board and leaves the table
\* as it was; aborted after its first read it returns the least of what
\* the entries on the boards after its moves return at once, and writes
\* its own board only; aborted after its second read the same, its first
\* child being searched one level further.
C24_AbortedEntriesReturnAtOnce ==
    (out.op = "jobs" /\ out.ran /\ ~out.panic /\ out.k # Never) =>
        LET me == other(out.board.color_to_move)
        IN  IF TableHas(out.before, out.board, 0)
            THEN /\ out.val = TableGet(out.before, out.board, 0)
                 /\ out.tt = out.before
            ELSE /\ out.k = 0 =>
                     /\ out.val = score(out.board, me)
                     /\ out.tt = out.before
                 /\ (out.k = 1 \/ (out.k > 1 /\ out.depth = 1)) =>
                     /\ out.val = OneLevel(out.before, out.board, me, 0)
                     /\ out.tt = Written(out.before, out.board, 0, out.val)
                 /\ (/\ out.k = 2
                     /\ out.depth > 1
                     /\ legal_moves(out.board).err = "None"
                     /\ \A c \in Range(Children(out.board)) :
                            ~TableHas(out.before, c, 1)) =>
                     /\ out.val = TwoLevels(out.before, out.board, me)
                     /\ out.tt =
                          Written(Written(out.before, Children(out.board)[1], 1,
                                          OneLevel(out.before, Children(out.board)[1],
                                                   me, 1)),
                                  out.board, 0, out.val)

\* C24: in a job aborted after its second read, an entry at level 2 found
\* its board in the table, with a value that is not its static score
C24_Witness ==
    /\ out.op = "jobs"
    /\ out.ran
    /\ out.k = 2
    /\ out.depth = 3
    /\ ~out.panic
    /\ legal_moves(out.board).err = "None"
    /\ \E c \in Range(Children(Children(out.board)[1])) :
        /\ TableHas(out.before, c, 2)
        /\ TableGet(out.before, c, 2) # score(c, other(out.board.color_to_move))

(***************************************************************************)
(* The pool used again: searches are started one after the other on the    *)
(* same pool, as main.rs does move after move.                             *)
(***************************************************************************)
\* a position with one legal move, a checkmate and a position with two
\* legal moves, searched to MaxDepth
AgainInputs ==
    {<<CorridorBoard, MaxDepth>>, <<MateBoard, MaxDepth>>, <<PawnBoard, MaxDepth>>}

FindBestMoveAgain == FindBestMoveOn(AgainInputs, MaxAgain)

AgainNext ==
    \/ FindBestMoveAgain
    \/ PoolSteps

AgainSpec == Init /\ [][AgainNext]_vars

\* C25: find_best_move clears the abort flag before it queues a job, at a
\* moment when no job of an earlier search is queued or being run; the
\* flag is raised by a call of abort() or abort_and_clear() only.  So a
\* searcher of a search reads the flag as true only after a call made
\* during that search.
C25_AbortClearedAtStart ==
    /\ [][sid' # sid =>
            /\ ~abort'
            /\ jobs = << >>
            /\ \A w \in Workers : wpc[w] # "run"]_vars
    /\ [][(abort' /\ ~abort) => (Abort \/ AbortAndClear)]_vars

\* C25: abort_and_clear was called on the first search, and a worker is
\* running a job of the second search with the flag clear
C25_Witness ==
    /\ sid = 2
    /\ cleared = 1
    /\ thinking
    /\ ~abort
    /\ \E w \in Workers : wpc[w] = "run"

\* the places where the job of root move m or its result is: the queue, a
\* worker that popped it, the result channel, the results received
InQueue(m) == {i \in 1..Len(jobs) : jobs[i].mv = m}

HeldBy(m) == {w \in Workers : wjob[w] # NoJob /\ wjob[w].mv = m}

InChannel(m) == {i \in 1..Len(chan) : chan[i].mv = m}

InReceived(m) == {i \in 1..Len(received) : received[i].mv = m}

Copies(m) ==
    Cardinality(InQueue(m)) + Cardinality(HeldBy(m))
        + Cardinality(InChannel(m)) + Cardinality(InReceived(m))

\* C26: a job of the queue is returned by next_job to at most one worker:
\* the job of a root move, or its result, is in one place at most, and the
\* aggregator never receives two results for one root move.
C26_JobPoppedOnce ==
    /\ \A i \in 1..Len(fb.moves) : Copies(fb.moves[i]) <= 1
    /\ \A i, j \in 1..Len(received) :
            received[i].mv = received[j].mv => i = j

\* C26: every worker has popped a job of the search, each its own
C26_Witness ==
    /\ \A w \in Workers : wpc[w] = "run"
    /\ \A v, w \in Workers : v # w => wjob[v].mv # wjob[w].mv
    /\ \A w \in Workers : \E i \in 1..Len(fb.moves) : fb.moves[i] = wjob[w].mv

\* the root moves of the search that is running
RootMoves == {fb.moves[i] : i \in 1..Len(fb.moves)}

\* C27: with find_best_move called only while thinking is false, whenever
\* thinking is false the job queue is empty, the result channel is empty
\* and no worker is running a job; so every result the aggregator of a
\* search finds in the channel or has received is of a root move of that
\* search.
C27_IdlePoolIsEmpty ==
    /\ ~thinking =>
            /\ jobs = << >>
            /\ chan = << >>
            /\ \A w \in Workers : wpc[w] # "run"
    /\ \A i \in 1..Len(chan) : chan[i].mv \in RootMoves
    /\ \A i \in 1..Len(received) : received[i].mv \in RootMoves

\* C27: the second search, of two root moves, is over and thinking is false
\* again; the first search had another root move
C27_Witness ==
    /\ sid = 2
    /\ ~thinking
    /\ Len(last) = 2
    /\ last[1].kind = "Ok"
    /\ last[2].kind = "Ok"
    /\ Len(received) = 2
    /\ last[1].mv \notin RootMoves

BishopMateBoard ==
    Position(<< <<a8, "King", Black>>,
                <<from_algebra(0, 7), "Pawn", White>>,
                <<from_algebra(1, 6), "King", White>>,
                <<from_algebra(7, 6), "Pawn", Black>>,
                <<from_algebra(4, 3), "Pawn", Black>>,
                <<from_algebra(4, 2), "Pawn", White>>,
                <<f1, "Bishop", White>> >>, White)

\* k7/P7/K7/7p/8/4p3/4P3/5B2 w: the same with the king on a6 and the pawn
\* on h5
BishopMateBoard2 ==
    Position(<< <<a8, "King", Black>>,
                <<from_algebra(0, 7), "Pawn", White>>,
                <<from_algebra(0, 6), "King", White>>,
                <<from_algebra(7, 5), "Pawn", Black>>,
                <<from_algebra(4, 3), "Pawn", Black>>,
                <<from_algebra(4, 2), "Pawn", White>>,
                <<f1, "Bishop", White>> >>, White)

MateInputs == {BishopMateBoard, BishopMateBoard2, MateInOneBoard}

MateInit ==
    /\ cur \in MateInputs
    /\ ply = 0
    /\ out = NoOutput
    /\ PoolInit

\* find_best_move: a new table, the jobs pushed in the order of
\* legal_moves, the aggregator with no move and the least score
QueueMateJobs ==
    /\ out.op = "none"
    /\ \E lm \in {legal_moves(cur)}, d \in 1..MaxMateDepth :
           /\ lm.err = "None"
           /\ out' = [op |-> "mate", depth |-> d, moves |-> lm.moves,
                      next |-> Len(lm.moves), tt |-> TableNew(TableLevels),
                      chan |-> << >>, received |-> << >>,
                      best_move |-> NoMove, best_score |-> ISizeMin]
    /\ UNCHANGED << cur, ply >>
    /\ UNCHANGED poolVars

\* the worker pops the top job, searches it and sends the result
RunMateJob ==
    /\ out.op = "mate"
    /\ out.next > 0
    /\ \E m \in {out.moves[out.next]} :
        \E r \in {alpha_beta(make_move(cur, m).board, out.depth,
                             Context(TRUE, Never), out.tt)} :
            /\ ~r.panic
            /\ out' = [out EXCEPT
                          !.next = @ - 1,
                          !.tt = r.tt,
                          !.chan = Append(@, [mv |-> m, val |-> r.val])]
    /\ UNCHANGED << cur, ply >>
    /\ UNCHANGED poolVars

\* one iteration of the aggregator's receive loop; coin is rng.gen()
ReceiveMate ==
    /\ out.op = "mate"
    /\ out.chan # << >>
    /\ \E coin \in BOOLEAN :
        LET r == Head(out.chan)
            better == r.val > out.best_score \/ (r.val = out.best_score /\ coin)
        IN  out' = [out EXCEPT
                      !.chan = Tail(@),
                      !.received = Append(@, r),
                      !.best_move = IF better THEN r.mv ELSE @,
                      !.best_score = IF better THEN r.val ELSE @]
    /\ UNCHANGED << cur, ply >>
    /\ UNCHANGED poolVars

MateNext ==
    \/ QueueMateJobs
    \/ RunMateJob
    \/ ReceiveMate

MateSpec == MateInit /\ [][MateNext]_vars

\* the move m on b checkmates the opponent
MatesAtOnce(b, m) == legal_moves(make_move(b, m).board).err = "Checkmate"

\* the move m on b does not checkmate, and whatever the opponent replies
\* the mover has a checkmating move
MatesNext(b, m) ==
    LET c == make_move(b, m).board
        replies == legal_moves(c)
    IN  /\ replies.err = "None"
        /\ \A i \in 1..Len(replies.moves) :
              LET c2 == make_move(c, replies.moves[i]).board
                  lm == legal_moves(c2)
              IN  /\ lm.err = "None"
                  /\ \E j \in 1..Len(lm.moves) : MatesAtOnce(c2, lm.moves[j])

\* the search of depth MaxMateDepth is over
MateSearchDone ==
    /\ out.op = "mate"
    /\ out.depth = MaxMateDepth
    /\ Len(out.received) = Len(out.moves)

\* C29: when a root move checkmates at once and another forces checkmate
\* two plies later, within the search depth, the first gets a strictly
\* better score and the move chosen is a checkmate at once.
C29_FasterMateScoresHigher ==
    MateSearchDone =>
        /\ \A i, j \in 1..Len(out.received) :
              (/\ MatesAtOnce(cur, out.received[i].mv)
               /\ MatesNext(cur, out.received[j].mv))
                  => out.received[i].val > out.received[j].val
        /\ (\E i, j \in 1..Len(out.moves) :
                /\ MatesAtOnce(cur, out.moves[i])
                /\ MatesNext(cur, out.moves[j]))
              => MatesAtOnce(cur, out.best_move)

\* C29: a checkmate at once was among the root moves, and the move chosen
\* is one that checkmates two plies later, with the same score
C29_Witness ==
    /\ MateSearchDone
    /\ MatesNext(cur, out.best_move)
    /\ \E i \in 1..Len(out.received) :
          /\ MatesAtOnce(cur, out.received[i].mv)
          /\ out.received[i].val = out.best_score

(***************************************************************************)
(* The mobility bonus of the sliding pieces: nthreats and piece_score are  *)
(* applied to a rook, a bishop or a queen of either colour put on any      *)
(* empty square of a position.                                             *)
(***************************************************************************)
\* 4k3/8/3P4/6p1/8/2n5/1P6/K7: the pieces the slider stands among
RayBase ==
    << <<e8, "King", Black>>,
       <<from_algebra(3, 6), "Pawn", White>>,
       <<from_algebra(6, 5), "Pawn", Black>>,
       <<from_algebra(2, 3), "Knight", Black>>,
       <<from_algebra(1, 2), "Pawn", White>>,
       <<a1, "King", White>> >>

Sliders == {"Rook", "Bishop", "Queen"}

RayInputs ==
    {Position(Append(RayBase, <<pos, k, c>>), White) :
        pos \in {sq \in Squares : \A i \in 1..Len(RayBase) : RayBase[i][1] # sq},
        k \in Sliders, c \in Colors}

RayInit ==
    /\ cur \in RayInputs
    /\ ply = 0
    /\ out = NoOutput
    /\ PoolInit

\* score: piece_score of a sliding piece of the board
SliderScore ==
    /\ out.op = "none"
    /\ \E pos \in Squares :
        \E p \in {piece(cur, pos)} :
            /\ p.kind \in Sliders
            /\ out' = [op |-> "piece_score", pos |-> pos, piece |-> p,
                       n |-> nthreats(cur, pos, p),
                       score |-> piece_score(cur, pos, p)]
    /\ UNCHANGED << cur, ply >>
    /\ UNCHANGED poolVars

RayNext ==
    \/ SliderScore

RaySpec == RayInit /\ [][RayNext]_vars

\* the directions of a sliding piece
SliderDirs(k) ==
    CASE k = "Rook" -> RookDirs
      [] k = "Bishop" -> BishopDirs
      [] k = "Queen" -> QueenDirs

\* the squares of the ray from pos in direction d, nearest first
RECURSIVE RaySquares(_, _)
RaySquares(pos, d) ==
    LET nxt == mv(pos, d[1], d[2])
    IN  IF nxt = NoPos THEN << >> ELSE << nxt >> \o RaySquares(nxt, d)

\* the squares of a ray up to and including the first occupied one
UntilBlocked(b, sqs) ==
    LET hit == {i \in 1..Len(sqs) : occupied(b, sqs[i])}
    IN  IF hit = {} THEN sqs
        ELSE SubSeq(sqs, 1, CHOOSE i \in hit : \A j \in hit : i <= j)

\* 1 for each empty square and 2 for each square of the opponent
RECURSIVE Bonus(_, _, _)
Bonus(b, color, sqs) ==
    IF sqs = << >> THEN 0
    ELSE (IF ~occupied(b, Head(sqs)) THEN 1
          ELSE IF piece(b, Head(sqs)).color = other(color) THEN 2 ELSE 0)
         + Bonus(b, color, Tail(sqs))

\* the bonus of the rays that stop at the first occupied square
RECURSIVE BlockedBonus(_, _, _, _, _)
BlockedBonus(b, pos, color, dirs, i) ==
    IF i > Len(dirs) THEN 0
    ELSE Bonus(b, color, UntilBlocked(b, RaySquares(pos, dirs[i])))
         + BlockedBonus(b, pos, color, dirs, i + 1)

\* a square of a ray of the slider lies behind an occupied square and is
\* empty or holds a piece of the opponent
CountsBehind(b, pos, p) ==
    \E i \in 1..Len(SliderDirs(p.kind)) :
        LET sqs == RaySquares(pos, SliderDirs(p.kind)[i])
        IN  \E j, k \in 1..Len(sqs) :
                /\ j < k
                /\ occupied(b, sqs[j])
                /\ piece(b, sqs[k]).color # p.color

\* C30: the mobility bonus of a rook, bishop or queen is 1 for each empty
\* square and 2 for each square of the opponent along each ray up to and
\* including the first occupied square, and nothing for the squares
\* behind it; piece_score adds the square value and the material to it.
C30_BonusStopsAtBlocker ==
    out.op = "piece_score" =>
        LET n == BlockedBonus(cur, out.pos, out.piece.color,
                              SliderDirs(out.piece.kind), 1)
        IN  /\ out.n = n
            /\ out.score = n + value(out.pos) + Material(out.piece.kind)

\* C30: a slider with a square behind a blocking piece, whose bonus is
\* greater than that of its rays up to the blockers
C30_Witness ==
    /\ out.op = "piece_score"
    /\ CountsBehind(cur, out.pos, out.piece)
    /\ out.n > BlockedBonus(cur, out.pos, out.piece.color,
                            SliderDirs(out.piece.kind), 1)

\* when no square that counts lies behind a blocker, nthreats is the bonus
\* of the rays up to the blockers
OpenRaysAgree ==
    (out.op = "piece_score" /\ ~CountsBehind(cur, out.pos, out.piece)) =>
        out.n = BlockedBonus(cur, out.pos, out.piece.color,
                             SliderDirs(out.piece.kind), 1)

==========================================================================
